---- MODULE Spec2Model ----
(***************************************************************************)
(* A model of the two pieces of the pgvector RAG application that carry    *)
(* design content:                                                         *)
(*   - VectorService (vector_service.py): the per-resource collection name *)
(*     and the ensure-table-exists / store / search / retriever operations *)
(*     against the shared PostgreSQL backend;                              *)
(*   - TextChunkingTool (tools/chunking_tools.py): recursive and paragraph *)
(*     chunking with its metadata.                                         *)
(* Strings are sequences of one-character strings, so that formatting,     *)
(* replacing, splitting, joining and stripping are computed, not assumed.  *)
(***************************************************************************)
EXTENDS Integers, Sequences, FiniteSets, TLC

VARIABLES
    \* ---- the PostgreSQL backend shared by every VectorService caller
    tables,     \* the collection tables that exist
    inits,      \* how many times each table was initialised (CREATE TABLE ran)
    writes,     \* <<resource, table>> of every add_documents that was stored
    \* ---- the callers of VectorService (requests running concurrently)
    pc,         \* where each caller is in its operation
    op,         \* the operation it runs
    rid,        \* the resource identifier it was given
    coll,       \* the collection name it resolved
    hist,       \* the steps this operation made so far, each with its outcome
    last,       \* the backend's answer to its last step
    result,     \* how the operation ended
    \* ---- a TextChunkingTool and one call of it
    tool,       \* the tool's configuration: chunk_size, chunk_overlap
    documents,  \* the documents handed to the call
    call,       \* the call: method, content_type, detected_language
    ran,        \* the chunking methods the call went through
    status,     \* "ready", then "returned" or "ValueError"
    chunks,     \* the documents the call returned
    error,      \* the exception the call raised, if it raised one
    earlier,    \* what the caller holds of the first call it made
    \* ---- the chat of the pgvector app and of dev-docs-chat
    chat_history,   \* st.session_state.chat_history: the messages shown
    chat,           \* the last question asked, the chain's outcome, the reply
    \* ---- dev-docs-chat: record files and vector stores
    file_record,    \* the lines of uploads/uploaded_files.txt
    url_record,     \* the lines of uploads/uploaded_urls.txt
    app_url_record, \* the lines of uploaded_urls.txt of app.py
    chroma,         \* the chunks in shared_utils.vector_store
    pinecone,       \* the chunks in vectorstore.vectorstore
    app_chroma,     \* the chunks in the vector_store of app.py
    message,        \* the last handler that ran and the text it returned
    \* ---- the session of the pgvector app (st.session_state) and its database
    current_resource_id,  \* st.session_state.current_resource_id
    rag_chain,      \* st.session_state.rag_chain: None, or the chain's resource_id
    collection,     \* the chunks stored, each with the resource of its collection
    upload,         \* the last press of Process & Store: the files, what happened
    \* ---- the drug-treatment agent, its folder of PDFs and its persisted store
    kb,
    \* ---- dev-docs-chat: handlers running concurrently, each where it is
    race

nsVars == <<tables, inits, writes, pc, op, rid, coll, hist, last, result>>

chatVars == <<chat_history, chat>>

docVars == <<file_record, url_record, app_url_record, chroma, pinecone, app_chroma,
             message>>

appVars == <<current_resource_id, rag_chain, collection, upload>>

kbVars == <<kb>>

raceVars == <<race>>

chVars == <<tool, documents, call, ran, status, chunks, error, earlier>>

\* No exception was raised.
NoException == [type |-> "none", message |-> <<>>]

vars == <<tables, inits, writes, pc, op, rid, coll, hist, last, result,
          tool, documents, call, ran, status, chunks, error, earlier,
          chat_history, chat,
          file_record, url_record, app_url_record, chroma, pinecone, app_chroma,
          message,
          current_resource_id, rag_chain, collection, upload, kb, race>>

(***************************************************************************)
(* Strings                                                                 *)
(***************************************************************************)

\* str.replace(old, new) for one-character old and new.
Replace(s, old, new) == [i \in DOMAIN s |-> IF s[i] = old THEN new ELSE s[i]]

\* `needle in haystack` for sequences: needle occurs contiguously.
Contains(haystack, needle) ==
    \E i \in 0..(Len(haystack) - Len(needle)) :
        \A j \in 1..Len(needle) : haystack[i + j] = needle[j]

(***************************************************************************)
(* Resource identifiers: a UUID is its 128-bit value, held as the 32       *)
(* four-bit digits of the value, most significant first.                   *)
(***************************************************************************)

NumResources == 3

\* 123e4567-e89b-12d3-a456-426614174000
SampleResource ==
    <<1, 2, 3, 14, 4, 5, 6, 7,   14, 8, 9, 11,   1, 2, 13, 3,
      10, 4, 5, 6,   4, 2, 6, 6, 1, 4, 1, 7, 4, 0, 0, 0>>

\* The digit in which the k-th resource identifier differs from the sample:
\* last digit, first digit after a hyphen, last digit before a hyphen, ...
DiffersAt == <<32, 9, 8, 1, 20, 13, 16, 21>>

MkResource(k) ==
    IF k = 1 THEN SampleResource
    ELSE [SampleResource EXCEPT ![DiffersAt[k - 1]] = (@ + 1) % 16]

ResourceIds == {MkResource(k) : k \in 1..NumResources}

HexDigits == <<"0", "1", "2", "3", "4", "5", "6", "7",
               "8", "9", "a", "b", "c", "d", "e", "f">>

\* str(resource_id): the 32 lowercase hexadecimal digits of the value, in
\* groups of 8-4-4-4-12 joined by hyphens.
UUIDStr(u) ==
    LET hex == [i \in 1..32 |-> HexDigits[u[i] + 1]]
    IN  SubSeq(hex, 1, 8) \o <<"-">> \o SubSeq(hex, 9, 12) \o <<"-">>
            \o SubSeq(hex, 13, 16) \o <<"-">> \o SubSeq(hex, 17, 20) \o <<"-">>
            \o SubSeq(hex, 21, 32)

\* A plausible slip: only the first group of the identifier is used.
get_collection_name_short(resource_id) ==
    LET resource_id_str == UUIDStr(resource_id)
        resource_part == <<"r", "e", "s", "o", "u", "r", "c", "e", "_">>
                            \o SubSeq(Replace(resource_id_str, "-", "_"), 1, 8)
    IN  resource_part \o <<"_", "d", "o", "c", "u", "m", "e", "n", "t", "s">>

get_collection_name(resource_id) ==
    LET resource_id_str == UUIDStr(resource_id)
        resource_part == <<"r", "e", "s", "o", "u", "r", "c", "e", "_">>
                            \o Replace(resource_id_str, "-", "_")
    IN  resource_part \o <<"_", "d", "o", "c", "u", "m", "e", "n", "t", "s">>

(***************************************************************************)
(* The backend's answers to engine.init_vectorstore_table.  An error is    *)
(* the text of the exception, as words.                                    *)
(***************************************************************************)

\* CREATE TABLE on a table that exists.
DuplicateTableError ==
    <<"(psycopg.errors.DuplicateTable)", "relation", "already", "exists">>

\* The server cannot be reached.
ConnectionError == <<"(psycopg.OperationalError)", "connection", "refused">>

\* CREATE EXTENSION IF NOT EXISTS vector, lost to a concurrent session: the
\* statement that precedes CREATE TABLE fails and the table is not created.
ExtensionRaceError ==
    <<"(psycopg.errors.UniqueViolation)", "duplicate", "key", "value",
      "violates", "unique", "constraint", "pg_extension_name_index",
      "Key", "(extname)=(vector)", "already", "exists">>

Faults == {ConnectionError, ExtensionRaceError}

\* PGVectorStore on a table that is not there.
NoTableError == <<"Table", "does", "not", "exist">>

NoError == <<>>

\* What init_vectorstore_table can answer for a table, given the tables that
\* exist: <<>> when it created the table, an error text otherwise.
InitAnswers(table) ==
    (IF table \in tables THEN {DuplicateTableError} ELSE {NoError}) \cup Faults

\* A plausible slip: no error is taken as "the table exists".
IsAlreadyExistsNever(table_error) == FALSE

\* vector_service.py:164: the error is taken as "the table exists".
IsAlreadyExists(table_error) ==
    \/ Contains(table_error, <<"already", "exists">>)
    \/ \E w \in 1..Len(table_error) :
          table_error[w] = "(psycopg.errors.DuplicateTable)"

\* _ensure_table_exists, given the backend's answer: returns or raises.
EnsureOutcome(answer) ==
    IF answer = NoError \/ IsAlreadyExists(answer) THEN "ok" ELSE "RuntimeError"

(***************************************************************************)
(* The callers and their operations                                        *)
(***************************************************************************)

Callers == {"c1", "c2"}

Ops == {"store_documents", "similarity_search", "create_retriever"}

\* The call each operation makes on the vector store it obtained.
UseCall(o) ==
    CASE o = "store_documents"   -> "add_documents"
      [] o = "similarity_search" -> "similarity_search"
      [] o = "create_retriever"  -> "as_retriever"

\* A plausible slip: the failure of a step is swallowed and the operation goes on.
StepAfterSwallow(at, outcome) ==
    CASE at = "ensure"    -> "get_store"
      [] at = "get_store" -> "create"
      [] at = "create"    -> "use"
      [] at = "use"       -> "done"

\* Where an operation goes after the step at `at` ended with `outcome`: every
\* step sits in the operation's try block, so a raise ends the operation.
StepAfter(at, outcome) ==
    IF outcome # "ok" THEN "done"
    ELSE CASE at = "ensure"    -> "get_store"
           [] at = "get_store" -> "create"
           [] at = "create"    -> "use"
           [] at = "use"       -> "done"

\* The chat shows the given messages and no question was asked.
NoChat(history) ==
    /\ chat_history = history
    /\ chat = [handler |-> "none"]

\* st.session_state.rag_chain = None
None == [isNone |-> TRUE]

\* The session as the first run of the script finds it: a resource
\* identifier was drawn, there is no chain, nothing is stored and nothing was
\* uploaded.
NewSession(resource) ==
    /\ current_resource_id = resource
    /\ rag_chain = None
    /\ collection = <<>>
    /\ upload = [pressed |-> FALSE]

\* No agent process was started.
NoAgent == [at |-> "none"]

\* No handler runs beside another.
NoHandlers == [h \in {"h1", "h2"} |-> [pc |-> "none"]]

\* The agent and the concurrent handlers are as given.
Others(agent, handlers) ==
    /\ kb = agent
    /\ race = handlers

\* A record file that does not exist yet.
NoFile == [exists |-> FALSE, lines |-> <<>>]

\* The record files are as given, the vector stores hold what is given and
\* no handler ran.
NoUploads(record, store) ==
    /\ file_record = record
    /\ url_record = record
    /\ app_url_record = record
    /\ chroma = store
    /\ pinecone = store
    /\ app_chroma = store
    /\ message = [handler |-> "none"]

\* No VectorService operation is under way.
ServiceIdle(callers) ==
    /\ tables = {}
    /\ inits = [t \in {} |-> 0]
    /\ writes = {}
    /\ pc = [c \in callers |-> "idle"]
    /\ op = [c \in callers |-> "none"]
    /\ rid = [c \in callers |-> SampleResource]
    /\ coll = [c \in callers |-> <<>>]
    /\ hist = [c \in callers |-> <<>>]
    /\ last = [c \in callers |-> [answer |-> NoError]]
    /\ result = [c \in callers |-> "none"]

\* The entry an operation's step leaves in its history.
Step(name, table, outcome) == [call |-> name, table |-> table, outcome |-> outcome]

\* A caller enters store_documents, similarity_search or create_retriever and
\* resolves the collection name (its previous operation has returned or raised).
\* The three operations make the same steps up to their call on the vector
\* store, so which of the three it is is drawn where they part, in Use.
Begin(c) ==
    /\ pc[c] \in {"idle", "done"}
    /\ \E r \in ResourceIds :
          /\ rid' = [rid EXCEPT ![c] = r]
          /\ coll' = [coll EXCEPT ![c] = get_collection_name(r)]
    /\ op' = [op EXCEPT ![c] = "none"]
    /\ pc' = [pc EXCEPT ![c] = "ensure"]
    /\ hist' = [hist EXCEPT ![c] = <<>>]
    /\ last' = [last EXCEPT ![c] = [answer |-> NoError]]
    /\ result' = [result EXCEPT ![c] = "none"]
    /\ UNCHANGED <<tables, inits, writes>>
    /\ UNCHANGED <<chVars, chatVars, docVars, appVars, kbVars, raceVars>>

\* _ensure_table_exists(collection_name): called by the operation itself and
\* again by _get_vector_store.  The one access to shared state is the
\* backend's init_vectorstore_table, which is atomic in the database.
EnsureTableExists(c) ==
    /\ pc[c] \in {"ensure", "get_store"}
    /\ \E answer \in InitAnswers(coll[c]) :
          LET outcome == EnsureOutcome(answer) IN
          /\ tables' = IF answer = NoError THEN tables \cup {coll[c]} ELSE tables
          /\ inits' = IF answer = NoError
                      THEN [t \in DOMAIN inits \cup {coll[c]} |->
                               IF t = coll[c]
                               THEN (IF t \in DOMAIN inits THEN inits[t] ELSE 0) + 1
                               ELSE inits[t]]
                      ELSE inits
          /\ hist' = [hist EXCEPT ![c] = Append(@, Step("ensure", coll[c], outcome))]
          /\ last' = [last EXCEPT ![c] = [answer |-> answer]]
          /\ pc' = [pc EXCEPT ![c] = StepAfter(pc[c], outcome)]
          /\ result' = [result EXCEPT ![c] =
                            IF StepAfter(pc[c], outcome) = "done"
                            THEN "RuntimeError" ELSE @]
    /\ UNCHANGED <<writes, op, rid, coll>>
    /\ UNCHANGED <<chVars, chatVars, docVars, appVars, kbVars, raceVars>>

\* PGVectorStore.create_sync in _get_vector_store: fails when the table is
\* not there, or when the backend fails.
CreateSync(c) ==
    /\ pc[c] = "create"
    /\ \E answer \in (IF coll[c] \in tables THEN {NoError} ELSE {NoTableError})
                     \cup {ConnectionError} :
          LET outcome == IF answer = NoError THEN "ok" ELSE "RuntimeError" IN
          /\ hist' = [hist EXCEPT ![c] =
                        Append(@, Step("create_sync", coll[c], outcome))]
          /\ last' = [last EXCEPT ![c] = [answer |-> answer]]
          /\ pc' = [pc EXCEPT ![c] = StepAfter(pc[c], outcome)]
          /\ result' = [result EXCEPT ![c] =
                            IF StepAfter(pc[c], outcome) = "done"
                            THEN "RuntimeError" ELSE @]
    /\ UNCHANGED <<tables, inits, writes, op, rid, coll>>
    /\ UNCHANGED <<chVars, chatVars, docVars, appVars, kbVars, raceVars>>

\* add_documents, similarity_search or as_retriever on the vector store.
Use(c) ==
    /\ pc[c] = "use"
    /\ \E o \in Ops, answer \in {NoError, ConnectionError} :
          LET outcome == IF answer = NoError THEN "ok" ELSE "RuntimeError" IN
          /\ op' = [op EXCEPT ![c] = o]
          /\ writes' = IF o = "store_documents" /\ outcome = "ok"
                       THEN writes \cup {<<rid[c], coll[c]>>} ELSE writes
          /\ hist' = [hist EXCEPT ![c] =
                        Append(@, Step(UseCall(o), coll[c], outcome))]
          /\ last' = [last EXCEPT ![c] = [answer |-> answer]]
          /\ pc' = [pc EXCEPT ![c] = "done"]
          /\ result' = [result EXCEPT ![c] =
                            IF outcome = "ok" THEN "ok" ELSE "RuntimeError"]
    /\ UNCHANGED <<tables, inits, rid, coll>>
    /\ UNCHANGED <<chVars, chatVars, docVars, appVars, kbVars, raceVars>>

NextNS ==
    \E c \in Callers :
        \/ Begin(c)
        \/ EnsureTableExists(c)
        \/ CreateSync(c)
        \/ Use(c)

\* TextChunkingTool.__init__: the default chunk_size and chunk_overlap.
DefaultChunkSize == 1000
DefaultChunkOverlap == 200

\* VectorService.__init__: no operation is under way, and no chunking call
\* is made.
InitNS ==
    /\ ServiceIdle(Callers)
    /\ NoChat(<<>>) /\ NoUploads(NoFile, <<>>) /\ NewSession(1) /\ Others(NoAgent, NoHandlers)
    /\ tool = [chunk_size |-> DefaultChunkSize, chunk_overlap |-> DefaultChunkOverlap]
    /\ documents = <<>>
    /\ call = [method |-> "none"]
    /\ ran = <<>>
    /\ status = "ready"
    /\ chunks = <<>>
    /\ error = NoException
    /\ earlier = [made |-> FALSE]

SpecNS == InitNS /\ [][NextNS]_vars

(***************************************************************************)
(* Properties of the collection resolver and the vector service            *)
(***************************************************************************)

\* The last step a caller's operation made, if it made one.
HasStep(c) == Len(hist[c]) > 0
LastStep(c) == hist[c][Len(hist[c])]

ReadCalls == {"similarity_search", "as_retriever"}
UseCalls == {"add_documents", "similarity_search", "as_retriever"}

\* Every <<resource, collection name>> the service has resolved and holds.
Resolved == {<<rid[c], coll[c]>> : c \in {d \in Callers : pc[d] # "idle"}} \cup writes

\* C1: get_collection_name is injective: two distinct resource identifiers
\* never resolve to the same collection name.
C1_Injective ==
    \A x \in Resolved, y \in Resolved : x[1] # y[1] => x[2] # y[2]

C1_Witness ==
    \E c \in Callers, d \in Callers :
        /\ pc[c] # "idle" /\ pc[d] # "idle"
        /\ rid[c] # rid[d]
        /\ \E w \in writes : w[1] # rid[c] /\ w[1] # rid[d]

\* C2: tenant isolation: a search or a retriever for resource r reads exactly
\* the table that store_documents(r) writes, and never a table written for
\* another resource.
C2_TenantIsolation ==
    \A c \in Callers :
        (HasStep(c) /\ LastStep(c).call \in ReadCalls) =>
            \A w \in writes : (w[1] = rid[c]) <=> (w[2] = LastStep(c).table)

C2_Witness ==
    \E c \in Callers :
        /\ HasStep(c) /\ LastStep(c).call \in ReadCalls
        /\ LastStep(c).outcome = "ok"
        /\ \E w \in writes : w[1] = rid[c] /\ w[2] = LastStep(c).table
        /\ \E w \in writes : w[1] # rid[c]

\* C3: ensure-exists is idempotent under every interleaving: whether the
\* backend created the table for this call or answered that it exists
\* already, _ensure_table_exists returns normally, and no table is
\* initialised more than once.
C3_EnsureIdempotent ==
    /\ \A c \in Callers :
          (/\ HasStep(c) /\ LastStep(c).call = "ensure"
           /\ last[c].answer \in {NoError, DuplicateTableError})
              => LastStep(c).outcome = "ok"
    /\ \A t \in DOMAIN inits : inits[t] <= 1

\* Two callers have each just ensured the same table, one created it and the
\* other found it; and a caller has ensured its table twice in sequence.
C3_Witness ==
    /\ \E c \in Callers, d \in Callers :
          /\ c # d /\ coll[c] = coll[d]
          /\ pc[c] = "get_store" /\ pc[d] = "get_store"
          /\ last[c].answer = NoError /\ last[d].answer = DuplicateTableError
          /\ LastStep(c).outcome = "ok" /\ LastStep(d).outcome = "ok"
          /\ inits[coll[c]] = 1

\* C4 (as claimed): _ensure_table_exists returns normally only when the table
\* exists afterwards, and every failure of the initialisation whose cause is
\* not that the table exists already ends in RuntimeError.
C4_EnsureOnlyIfTableExists ==
    \A c \in Callers :
        (HasStep(c) /\ LastStep(c).call = "ensure") =>
            /\ LastStep(c).outcome = "ok" => coll[c] \in tables
            /\ last[c].answer \notin {NoError, DuplicateTableError}
                  => LastStep(c).outcome = "RuntimeError"

\* C5: ensure before use: a call of add_documents, similarity_search or
\* as_retriever is made only after ensure-exists returned normally for the
\* same collection in the same operation; an ensure-exists that fails is the
\* operation's last backend call (no use, no second initialisation) and the
\* operation raises.
C5_EnsureBeforeUse ==
    \A c \in Callers :
        \A i \in 1..Len(hist[c]) :
            /\ hist[c][i].call \in UseCalls =>
                  /\ \E j \in 1..(i - 1) :
                        /\ hist[c][j].call = "ensure"
                        /\ hist[c][j].outcome = "ok"
                        /\ hist[c][j].table = hist[c][i].table
                  /\ \A j \in 1..(i - 1) : hist[c][j].outcome = "ok"
            /\ (hist[c][i].call = "ensure" /\ hist[c][i].outcome # "ok") =>
                  /\ i = Len(hist[c])
                  /\ pc[c] = "done"
                  /\ result[c] = "RuntimeError"

\* One operation has made its call on the vector store, another has ended at
\* a failed ensure-exists.
C5_Witness ==
    \E c \in Callers, d \in Callers :
        /\ pc[c] = "done" /\ LastStep(c).call \in UseCalls /\ result[c] = "ok"
        /\ pc[d] = "done" /\ LastStep(d).call = "ensure"
        /\ result[d] = "RuntimeError"

(***************************************************************************)
(* Text splitting, as the splitters TextChunkingTool builds compute it     *)
(* (RecursiveCharacterTextSplitter and CharacterTextSplitter of            *)
(* langchain_text_splitters, with length_function=len, literal separators  *)
(* and whitespace stripping).                                              *)
(***************************************************************************)

NL == "\n"

\* The characters str.strip() removes.
Whitespace == {" ", NL, "\t", "\r"}

Min(S) == CHOOSE x \in S : \A y \in S : x <= y

\* text.strip()
Strip(text) ==
    IF \A i \in 1..Len(text) : text[i] \in Whitespace THEN <<>>
    ELSE LET start == CHOOSE i \in 1..Len(text) :
                          /\ text[i] \notin Whitespace
                          /\ \A j \in 1..(i - 1) : text[j] \in Whitespace
             end == CHOOSE i \in 1..Len(text) :
                          /\ text[i] \notin Whitespace
                          /\ \A j \in (i + 1)..Len(text) : text[j] \in Whitespace
         IN  SubSeq(text, start, end)

\* The separator occurs in the text at position i.
MatchAt(text, separator, i) ==
    /\ i + Len(separator) - 1 <= Len(text)
    /\ \A j \in 1..Len(separator) : text[i + j - 1] = separator[j]

\* re.search(re.escape(separator), text)
Search(text, separator) ==
    \E i \in 1..Len(text) : MatchAt(text, separator, i)

\* re.split(re.escape(separator), text) from position start on: the pieces
\* between the leftmost non-overlapping occurrences, empty pieces included.
RECURSIVE ReSplitFrom(_, _, _)
ReSplitFrom(text, separator, start) ==
    LET hits == {i \in start..Len(text) : MatchAt(text, separator, i)}
    IN  IF hits = {} THEN <<SubSeq(text, start, Len(text))>>
        ELSE <<SubSeq(text, start, Min(hits) - 1)>>
                \o ReSplitFrom(text, separator, Min(hits) + Len(separator))

\* _split_text_with_regex: a kept separator starts the piece that follows it;
\* an empty separator splits into characters; empty pieces are dropped.
split_text_with_regex(text, separator, keep_separator) ==
    LET parts == ReSplitFrom(text, separator, 1)
        splits == IF separator # <<>>
                  THEN IF keep_separator
                       THEN [k \in 1..Len(parts) |->
                                IF k = 1 THEN parts[1] ELSE separator \o parts[k]]
                       ELSE parts
                  ELSE [i \in 1..Len(text) |-> <<text[i]>>]
    IN  SelectSeq(splits, LAMBDA x : x # <<>>)

\* separator.join(docs[lo..hi])
RECURSIVE JoinRange(_, _, _, _)
JoinRange(docs, separator, lo, hi) ==
    IF lo > hi THEN <<>>
    ELSE IF lo = hi THEN docs[lo]
    ELSE LET mid == (lo + hi) \div 2
         IN  JoinRange(docs, separator, lo, mid) \o separator
                \o JoinRange(docs, separator, mid + 1, hi)

\* A plausible slip: the pieces are joined with a space between them.
join_docs_spaced(docs, separator) == Strip(JoinRange(docs, <<" ">>, 1, Len(docs)))

\* _join_docs: the joined and stripped text; <<>> stands for None.
join_docs(docs, separator) == Strip(JoinRange(docs, separator, 1, Len(docs)))

\* A plausible slip: the window is emptied, so nothing is carried over.
KeepPoppingAll(total, len, n, sepLen, C, O) == total > 0

\* The condition of the while loop of _merge_splits that drops pieces from
\* the front of the window after a chunk was emitted.
KeepPopping(total, len, n, sepLen, C, O) ==
    \/ total > O
    \/ /\ total + len + (IF n > 0 THEN sepLen ELSE 0) > C
       /\ total > 0

\* One turn of that loop.
PopOnce(st, len, sepLen, C, O) ==
    IF KeepPopping(st.total, len, Len(st.current_doc), sepLen, C, O)
    THEN [docs |-> st.docs,
          current_doc |-> Tail(st.current_doc),
          total |-> st.total - (Len(Head(st.current_doc))
                        + (IF Len(st.current_doc) > 1 THEN sepLen ELSE 0))]
    ELSE st

\* The loop: at most n turns are taken, n the length of the window.  (The
\* turns are taken half by half, and the test on the first half's result has
\* it computed before the second half starts, to keep the evaluation shallow.)
RECURSIVE PopUpTo(_, _, _, _, _, _)
PopUpTo(st, n, len, sepLen, C, O) ==
    IF n = 0 THEN st
    ELSE IF n = 1 THEN PopOnce(st, len, sepLen, C, O)
    ELSE LET half == PopUpTo(st, n \div 2, len, sepLen, C, O)
         IN  IF half.total >= 0
             THEN PopUpTo(half, n - (n \div 2), len, sepLen, C, O)
             ELSE half

\* The body of the for loop of _merge_splits for the piece d.
MergeOne(st, d, separator, C, O) ==
    LET len == Len(d)
        sepLen == Len(separator)
        n == Len(st.current_doc)
        doc == join_docs(st.current_doc, separator)
        flushed ==
            IF st.total + len + (IF n > 0 THEN sepLen ELSE 0) > C /\ n > 0
            THEN PopUpTo([docs |-> IF doc # <<>> THEN Append(st.docs, doc)
                                   ELSE st.docs,
                          current_doc |-> st.current_doc,
                          total |-> st.total],
                         n, len, sepLen, C, O)
            ELSE st
        cur == Append(flushed.current_doc, d)
    IN  [docs |-> flushed.docs,
         current_doc |-> cur,
         total |-> flushed.total + len + (IF Len(cur) > 1 THEN sepLen ELSE 0)]

\* The for loop of _merge_splits over splits[lo..hi], half by half.
RECURSIVE MergeRange(_, _, _, _, _, _, _)
MergeRange(st, splits, lo, hi, separator, C, O) ==
    IF lo > hi THEN st
    ELSE IF lo = hi THEN MergeOne(st, splits[lo], separator, C, O)
    ELSE LET mid == (lo + hi) \div 2
             half == MergeRange(st, splits, lo, mid, separator, C, O)
         IN  IF half.total >= 0
             THEN MergeRange(half, splits, mid + 1, hi, separator, C, O)
             ELSE half

\* TextSplitter._merge_splits: pieces are gathered into chunks of at most C
\* characters, each chunk starting with the tail of the one before.
merge_splits(splits, separator, C, O) ==
    LET st == MergeRange([docs |-> <<>>, current_doc |-> <<>>, total |-> 0],
                         splits, 1, Len(splits), separator, C, O)
        doc == join_docs(st.current_doc, separator)
    IN  IF doc # <<>> THEN Append(st.docs, doc) ELSE st.docs

\* A plausible slip: the pieces are returned as they were split, not merged.
character_split_text_unmerged(text, separator, C, O) ==
    split_text_with_regex(text, separator, FALSE)

\* CharacterTextSplitter.split_text (keep_separator is False).
character_split_text(text, separator, C, O) ==
    merge_splits(split_text_with_regex(text, separator, FALSE), separator, C, O)

\* The first separator of the list that is empty or occurs in the text.
PickSeparator(text, separators) ==
    LET found == {k \in 1..Len(separators) :
                      separators[k] = <<>> \/ Search(text, separators[k])}
    IN  IF found = {} THEN 0 ELSE Min(found)

\* RecursiveCharacterTextSplitter._split_text (keep_separator is True, so
\* pieces are merged with the empty separator).
RECURSIVE recursive_split_text(_, _, _, _)
RECURSIVE SplitRange(_, _, _, _, _, _, _)

\* The body of its for loop for the piece s (the loop runs half by half).
SplitOne(st, s, new_separators, C, O) ==
    IF Len(s) < C THEN [final |-> st.final, good |-> Append(st.good, s)]
    ELSE [final |-> (IF st.good # <<>>
                     THEN st.final \o merge_splits(st.good, <<>>, C, O)
                     ELSE st.final)
                    \o (IF new_separators = <<>> THEN <<s>>
                        ELSE recursive_split_text(s, new_separators, C, O)),
          good |-> <<>>]

SplitRange(st, splits, lo, hi, new_separators, C, O) ==
    IF lo > hi THEN st
    ELSE IF lo = hi THEN SplitOne(st, splits[lo], new_separators, C, O)
    ELSE LET mid == (lo + hi) \div 2
             half == SplitRange(st, splits, lo, mid, new_separators, C, O)
         IN  IF Len(half.good) >= 0
             THEN SplitRange(half, splits, mid + 1, hi, new_separators, C, O)
             ELSE half

recursive_split_text(text, separators, C, O) ==
    LET k == PickSeparator(text, separators)
        separator == IF k = 0 THEN separators[Len(separators)] ELSE separators[k]
        new_separators == IF k = 0 \/ separators[k] = <<>> THEN <<>>
                          ELSE SubSeq(separators, k + 1, Len(separators))
        splits == split_text_with_regex(text, separator, TRUE)
        st == SplitRange([final |-> <<>>, good |-> <<>>], splits, 1, Len(splits),
                         new_separators, C, O)
    IN  IF st.good # <<>> THEN st.final \o merge_splits(st.good, <<>>, C, O)
        ELSE st.final

\* TextSplitter.split_documents: the chunks of every document in turn, each
\* with a copy of its document's metadata.  pieces[i] are the chunks of the
\* i-th document's text.
RECURSIVE CreateDocuments(_, _, _)
CreateDocuments(docs, pieces, i) ==
    IF i > Len(docs) THEN <<>>
    ELSE [k \in 1..Len(pieces[i]) |->
             [page_content |-> pieces[i][k], metadata |-> docs[i].metadata]]
         \o CreateDocuments(docs, pieces, i + 1)

(***************************************************************************)
(* TextChunkingTool                                                        *)
(***************************************************************************)

\* A Python value that is None or a string.
PyNone == [isNone |-> TRUE, str |-> ""]
PyStr(s) == [isNone |-> FALSE, str |-> s]

\* The truth value of such a value: None and "" are false.
Truthy(v) == ~v.isNone /\ v.str # ""

\* v or "unknown"
OrUnknown(v) == IF Truthy(v) THEN v.str ELSE "unknown"

ParagraphSeparator == <<NL, NL>>

DefaultSeparators ==
    <<ParagraphSeparator, <<NL>>, <<".", " ">>, <<"!", " ">>, <<"?", " ">>,
      <<";", " ">>, <<",", " ">>, <<" ">>, <<>> >>

\* self.language_separators
language_separators ==
    [l \in {"english", "spanish", "french", "german", "portuguese", "italian",
            "bosnian", "default"} |-> DefaultSeparators]

\* The test that selects the language-specific splitter.
HasLanguageSeparators(detected_language) ==
    Truthy(detected_language) /\ detected_language.str \in DOMAIN language_separators

\* A plausible slip: chunk_size records the configured size.
ChunkMetadataConfigured(i, chunk, method, detected_language) ==
    [k \in {"chunk_index", "chunk_size", "chunking_method", "original_chunk_size",
            "chunk_overlap", "detected_language", "language_aware_chunking"} |->
        CASE k = "chunk_index"             -> i
          [] k = "chunk_size"              -> tool.chunk_size
          [] k = "chunking_method"         -> method
          [] k = "original_chunk_size"     -> tool.chunk_size
          [] k = "chunk_overlap"           -> tool.chunk_overlap
          [] k = "detected_language"       -> OrUnknown(detected_language)
          [] k = "language_aware_chunking" -> ~detected_language.isNone]

\* The metadata both methods add to the i-th chunk of the batch (i from 0).
ChunkMetadata(i, chunk, method, detected_language) ==
    [k \in {"chunk_index", "chunk_size", "chunking_method", "original_chunk_size",
            "chunk_overlap", "detected_language", "language_aware_chunking"} |->
        CASE k = "chunk_index"             -> i
          [] k = "chunk_size"              -> Len(chunk.page_content)
          [] k = "chunking_method"         -> method
          [] k = "original_chunk_size"     -> tool.chunk_size
          [] k = "chunk_overlap"           -> tool.chunk_overlap
          [] k = "detected_language"       -> OrUnknown(detected_language)
          [] k = "language_aware_chunking" -> ~detected_language.isNone]

\* for i, chunk in enumerate(chunked_docs): chunk.metadata.update({...})
AddChunkMetadata(chunked_docs, method, detected_language) ==
    [i \in 1..Len(chunked_docs) |->
        [page_content |-> chunked_docs[i].page_content,
         metadata |-> ChunkMetadata(i - 1, chunked_docs[i], method, detected_language)
                         @@ chunked_docs[i].metadata]]

\* What a method gives back: the chunks, or nothing and a ValueError whose
\* message ends with str(e) of the exception that was caught.
Returned(method, chunked_docs) ==
    [status |-> "returned", ran |-> <<method>>, chunks |-> chunked_docs,
     error |-> NoException]
Raised(method, e) ==
    [status |-> "ValueError", ran |-> <<method>>, chunks |-> <<>>,
     error |-> [type |-> "ValueError",
                message |-> <<IF method = "chunk_documents"
                              THEN "Failed to chunk documents by recursive character splitting: "
                              ELSE "Failed to chunk documents by paragraphs: ",
                              e.message>>]]

\* An element of the batch that has a page_content; anything else gives
\* AttributeError where the method reads doc.page_content.
IsDocument(d) == "page_content" \in DOMAIN d
NoPageContent ==
    [type |-> "AttributeError", message |-> "object has no attribute 'page_content'"]

\* CharacterTextSplitter(separators=...): its constructor takes no such keyword.
UnexpectedKeyword ==
    [type |-> "TypeError", message |-> "unexpected keyword argument 'separators'"]

\* A plausible slip: the documents before the failing one are chunked and
\* returned.
chunk_documents_partial(docs, detected_language) ==
    LET bad == {i \in 1..Len(docs) : ~IsDocument(docs[i])}
        good == IF bad = {} THEN docs ELSE SubSeq(docs, 1, Min(bad) - 1)
        pieces == [i \in 1..Len(good) |->
                      recursive_split_text(good[i].page_content,
                                           language_separators["default"],
                                           tool.chunk_size, tool.chunk_overlap)]
    IN  Returned("chunk_documents",
                 AddChunkMetadata(CreateDocuments(good, pieces, 1),
                                  "recursive_character", detected_language))

chunk_documents(docs, detected_language) ==
    IF \E i \in 1..Len(docs) : ~IsDocument(docs[i])
    THEN Raised("chunk_documents", NoPageContent)
    ELSE
    LET separators == IF HasLanguageSeparators(detected_language)
                      THEN language_separators[detected_language.str]
                      ELSE language_separators["default"]
        pieces == [i \in 1..Len(docs) |->
                      recursive_split_text(docs[i].page_content, separators,
                                           tool.chunk_size, tool.chunk_overlap)]
        chunked_docs == CreateDocuments(docs, pieces, 1)
    IN  Returned("chunk_documents",
                 AddChunkMetadata(chunked_docs, "recursive_character",
                                  detected_language))

\* With a language that has separators the CharacterTextSplitter is built
\* with separators=..., a keyword its constructor does not take: TypeError,
\* re-raised as ValueError.
chunk_by_paragraphs(docs, detected_language) ==
    IF HasLanguageSeparators(detected_language)
    THEN Raised("chunk_by_paragraphs", UnexpectedKeyword)
    ELSE IF \E i \in 1..Len(docs) : ~IsDocument(docs[i])
    THEN Raised("chunk_by_paragraphs", NoPageContent)
    ELSE LET pieces == [i \in 1..Len(docs) |->
                           character_split_text(docs[i].page_content,
                                                ParagraphSeparator,
                                                tool.chunk_size, tool.chunk_overlap)]
             chunked_docs == CreateDocuments(docs, pieces, 1)
         IN  Returned("chunk_by_paragraphs",
                      AddChunkMetadata(chunked_docs, "paragraph", detected_language))

\* The strategy adaptive_chunk takes for a content type, branch by branch.
Strategy(content_type) ==
    CASE content_type = "pdf"   -> "chunk_by_paragraphs"
      [] content_type = "docx"  -> "chunk_by_paragraphs"
      [] content_type = "excel" -> "chunk_by_paragraphs"
      [] content_type = "text"  -> "chunk_documents"
      [] content_type = "csv"   -> "chunk_documents"
      [] OTHER                  -> "chunk_documents"

adaptive_chunk(docs, content_type, detected_language) ==
    LET r == IF Strategy(content_type) = "chunk_by_paragraphs"
             THEN chunk_by_paragraphs(docs, detected_language)
             ELSE chunk_documents(docs, detected_language)
    IN  [r EXCEPT !.ran = <<"adaptive_chunk">> \o @]

(***************************************************************************)
(* The inputs of a chunking call                                           *)
(***************************************************************************)

MaxLen == 4
MaxPairLen == 1

Alphabet == {"a", "b", " ", NL}

Texts(n) == UNION {[1..k -> Alphabet] : k \in 0..n}

Document(text, meta) == [page_content |-> text, metadata |-> meta]

\* The metadata a loader gives the k-th document of a batch.
SourceMeta(k) == [m \in {"source"} |-> k]

\* No document, one document, or two short documents.
Batches ==
    {<<>>}
    \cup {<<Document(t, SourceMeta(1))>> : t \in Texts(MaxLen)}
    \cup {<<Document(t, SourceMeta(1)), Document(u, SourceMeta(2))>> :
             t \in Texts(MaxPairLen), u \in Texts(MaxPairLen)}

\* <<chunk_size, chunk_overlap>>, with chunk_overlap < chunk_size.
Configs == {<<2, 1>>, <<3, 1>>, <<4, 2>>, <<8, 2>>}

\* Document{content = "A" * 2500, metadata = {}}
ScenarioBatch == <<Document([i \in 1..2500 |-> "A"], [m \in {} |-> 0])>>

ContentTypes == {"pdf", "docx", "excel", "text", "csv", "markdown"}

Languages == {PyNone, PyStr(""), PyStr("english"), PyStr("klingon")}

\* The caller has the tool's configuration and the batch as it made them,
\* and no result yet.
NoEarlierCall(cfg, batch) ==
    [made |-> FALSE, chunk_size |-> cfg[1], chunk_overlap |-> cfg[2],
     documents |-> batch]

\* A tool built with (chunk_size, chunk_overlap) and a batch of documents to
\* chunk; no call was made yet.
ToolAndBatch(cfg, batch) ==
    /\ tool = [chunk_size |-> cfg[1], chunk_overlap |-> cfg[2]]
    /\ documents = batch
    /\ call = [method |-> "none", content_type |-> "", detected_language |-> PyNone]
    /\ ran = <<>>
    /\ status = "ready"
    /\ chunks = <<>>
    /\ error = NoException
    /\ earlier = NoEarlierCall(cfg, batch)

\* A tool with one of the configurations and a batch of documents.
InitChunk ==
    /\ ServiceIdle(Callers)
    /\ NoChat(<<>>) /\ NoUploads(NoFile, <<>>) /\ NewSession(1) /\ Others(NoAgent, NoHandlers)
    /\ \E cfg \in Configs, batch \in Batches : ToolAndBatch(cfg, batch)

\* The same, and also the tool with its default configuration and the one
\* document of 2500 characters.
InitRecursive ==
    /\ ServiceIdle(Callers)
    /\ NoChat(<<>>) /\ NoUploads(NoFile, <<>>) /\ NewSession(1) /\ Others(NoAgent, NoHandlers)
    /\ \/ \E cfg \in Configs, batch \in Batches : ToolAndBatch(cfg, batch)
       \/ ToolAndBatch(<<DefaultChunkSize, DefaultChunkOverlap>>, ScenarioBatch)

\* A plausible slip: the metadata is written into the documents that were
\* handed in, not into copies.
FinishInPlace(r) ==
    /\ ran' = r.ran
    /\ status' = r.status
    /\ chunks' = r.chunks
    /\ error' = r.error
    /\ documents' = [i \in 1..Len(documents) |->
                        IF IsDocument(documents[i]) /\ r.chunks # <<>>
                        THEN [documents[i] EXCEPT !.metadata = r.chunks[1].metadata]
                        ELSE documents[i]]
    /\ UNCHANGED <<tool, earlier>>
    /\ UNCHANGED <<nsVars, chatVars, docVars, appVars, kbVars, raceVars>>

\* What a call leaves behind.
Finish(r) ==
    /\ ran' = r.ran
    /\ status' = r.status
    /\ chunks' = r.chunks
    /\ error' = r.error
    /\ UNCHANGED <<tool, documents, earlier>>
    /\ UNCHANGED <<nsVars, chatVars, docVars, appVars, kbVars, raceVars>>

ChunkDocuments ==
    /\ status = "ready"
    /\ \E l \in Languages :
          /\ call' = [method |-> "chunk_documents", content_type |-> "",
                      detected_language |-> l]
          /\ Finish(chunk_documents(documents, l))

ChunkByParagraphs ==
    /\ status = "ready"
    /\ \E l \in Languages :
          /\ call' = [method |-> "chunk_by_paragraphs", content_type |-> "",
                      detected_language |-> l]
          /\ Finish(chunk_by_paragraphs(documents, l))

AdaptiveChunk ==
    /\ status = "ready"
    /\ \E t \in ContentTypes, l \in Languages :
          /\ call' = [method |-> "adaptive_chunk", content_type |-> t,
                      detected_language |-> l]
          /\ Finish(adaptive_chunk(documents, t, l))

NextChunk == ChunkDocuments \/ ChunkByParagraphs \/ AdaptiveChunk

SpecChunk == InitChunk /\ [][NextChunk]_vars

\* chunk_documents alone, on the same inputs and on the 2500-character document.
SpecRecursive == InitRecursive /\ [][ChunkDocuments]_vars

(***************************************************************************)
(* Properties of the chunking tool                                         *)
(***************************************************************************)

Content(i) == chunks[i].page_content

ChunkSize == tool.chunk_size
ChunkOverlap == tool.chunk_overlap

\* The text holds a run of more than n characters without whitespace: a
\* token that no separator divides.
HasTokenLongerThan(text, n) ==
    \E i \in 1..(Len(text) - n) : \A j \in i..(i + n) : text[j] \notin Whitespace

\* C6 (as claimed): every chunk a chunking call returns has at most
\* chunk_size characters, unless it holds a single indivisible token that is
\* itself longer than chunk_size.
C6_SizeBound ==
    status = "returned" =>
        \A i \in 1..Len(chunks) :
            \/ Len(Content(i)) <= ChunkSize
            \/ HasTokenLongerThan(Content(i), ChunkSize)

\* The last k characters of x are the first k characters of y.
Shares(x, y, k) ==
    /\ Len(x) >= k /\ Len(y) >= k
    /\ SubSeq(x, Len(x) - k + 1, Len(x)) = SubSeq(y, 1, k)

\* No separator of the list but the empty one occurs in the text, so the
\* text can only be cut by length.
CutByLengthOnly(text) ==
    \A k \in 1..Len(DefaultSeparators) :
        DefaultSeparators[k] # <<>> => ~Search(text, DefaultSeparators[k])

\* The chunks of a text cut by length alone: chunk k starts
\* chunk_size - chunk_overlap characters after chunk k - 1.
WindowStart(k) == (k - 1) * (ChunkSize - ChunkOverlap)
WindowsOf(text) ==
    IF text = <<>> THEN <<>>
    ELSE LET n == CHOOSE m \in 1..Len(text) :
                      /\ WindowStart(m) + ChunkSize >= Len(text)
                      /\ \A l \in 1..(m - 1) : WindowStart(l) + ChunkSize < Len(text)
         IN  [k \in 1..n |->
                 SubSeq(text, WindowStart(k) + 1,
                        IF WindowStart(k) + ChunkSize < Len(text)
                        THEN WindowStart(k) + ChunkSize ELSE Len(text))]

\* The 2500-character document, chunked with the default 1000 / 200.
ScenarioChunked ==
    /\ documents = ScenarioBatch
    /\ ChunkSize = DefaultChunkSize /\ ChunkOverlap = DefaultChunkOverlap
    /\ status = "returned"

IsParagraph(p) ==
    /\ p # <<>>
    /\ \A i \in 1..Len(p) : p[i] # NL
    /\ p[1] \notin Whitespace /\ p[Len(p)] \notin Whitespace

\* The two parts of a text around the blank line that follows character k.
Before(text, k) == SubSeq(text, 1, k)
After(text, k) == SubSeq(text, k + Len(ParagraphSeparator) + 1, Len(text))

\* The text is a paragraph of k characters, a blank line, and a paragraph.
TwoParagraphs(text, k) ==
    /\ MatchAt(text, ParagraphSeparator, k + 1)
    /\ IsParagraph(Before(text, k)) /\ IsParagraph(After(text, k))

Text1 == documents[1].page_content

\* adaptive_chunk was called for a pdf of one document with two paragraphs
\* separated by a blank line, shorter than chunk_size.
PdfOfTwoParagraphs(k) ==
    /\ status # "ready"
    /\ call.method = "adaptive_chunk" /\ call.content_type = "pdf"
    /\ Len(documents) = 1
    /\ TwoParagraphs(Text1, k)
    /\ Len(Text1) < ChunkSize

\* C8 (as claimed): adaptive_chunk for a pdf of two paragraphs separated by a
\* blank line, shorter than chunk_size, yields exactly 2 chunks, split at the
\* blank line.
C8_TwoParagraphsTwoChunks ==
    \A k \in 1..MaxLen :
        PdfOfTwoParagraphs(k) =>
            /\ status = "returned"
            /\ Len(chunks) = 2
            /\ Content(1) = Before(Text1, k) /\ Content(2) = After(Text1, k)

\* C8 (amended): adaptive_chunk for a pdf of two paragraphs separated by a
\* blank line, shorter than chunk_size, does not split at the blank line:
\* called with no detected language, or with one that has no separator list,
\* it yields exactly 1 chunk that holds both paragraphs and the blank line
\* between them; called with a language that has a separator list it raises
\* ValueError and yields nothing.
C8_TwoParagraphsOneChunk ==
    \A k \in 1..MaxLen :
        PdfOfTwoParagraphs(k) =>
            IF HasLanguageSeparators(call.detected_language)
            THEN status = "ValueError" /\ chunks = <<>>
            ELSE /\ status = "returned"
                 /\ Len(chunks) = 1
                 /\ Content(1) = Text1

C8_Witness ==
    /\ \E k \in 1..MaxLen : PdfOfTwoParagraphs(k)
    /\ status = "returned"
    /\ Len(chunks) = 1
    /\ Content(1) = Text1

\* C9 (as claimed): adaptive_chunk chunks pdf, docx, excel and csv by
\* paragraphs (chunking_method "paragraph") and text and every other content
\* type by recursive character splitting (chunking_method
\* "recursive_character").
C9_StrategySelection ==
    (call.method = "adaptive_chunk" /\ status # "ready") =>
        LET paragraphs == call.content_type \in {"pdf", "docx", "excel", "csv"} IN
        /\ ran = <<"adaptive_chunk",
                   IF paragraphs THEN "chunk_by_paragraphs" ELSE "chunk_documents">>
        /\ \A i \in 1..Len(chunks) :
              chunks[i].metadata["chunking_method"] =
                  IF paragraphs THEN "paragraph" ELSE "recursive_character"

\* How many chunks before the i-th come from the i-th chunk's document.
EarlierOfSameDocument(i) ==
    Cardinality({j \in 1..(i - 1) :
                    chunks[j].metadata["source"] = chunks[i].metadata["source"]})

C11_LanguageMetadata ==
    status = "returned" =>
        \A i \in 1..Len(chunks) :
            /\ chunks[i].metadata["language_aware_chunking"]
                  = HasLanguageSeparators(call.detected_language)
            /\ chunks[i].metadata["detected_language"]
                  = IF call.detected_language.isNone THEN "unknown"
                    ELSE call.detected_language.str

(***************************************************************************)
(* Chunking calls that fail                                                *)
(***************************************************************************)

\* A plain string in the place of a Document: it has no page_content.
BareString(text) == [str |-> text]

\* Batches of one or two elements, each a short document or a plain string.
FailingBatches ==
    LET elems(k) == {Document(t, SourceMeta(k)) : t \in Texts(MaxPairLen)}
                       \cup {BareString(<<"a">>)}
    IN  {<<d>> : d \in elems(1)}
        \cup {<<d1, d2>> : d1 \in elems(1), d2 \in elems(2)}

InitFailure ==
    /\ ServiceIdle(Callers)
    /\ NoChat(<<>>) /\ NoUploads(NoFile, <<>>) /\ NewSession(1) /\ Others(NoAgent, NoHandlers)
    /\ \E cfg \in Configs, batch \in FailingBatches : ToolAndBatch(cfg, batch)

SpecFailure == InitFailure /\ [][NextChunk]_vars

\* Splitting fails for the call: an element of the batch is not a document,
\* or the paragraph splitter cannot be built for the language.
SplittingFails ==
    \/ \E i \in 1..Len(documents) : ~IsDocument(documents[i])
    \/ /\ "chunk_by_paragraphs" \in {ran[i] : i \in 1..Len(ran)}
       /\ HasLanguageSeparators(call.detected_language)

\* C12: when splitting fails for a document of the batch, the call raises
\* ValueError whose message carries the text of the underlying exception,
\* and returns no chunk at all, also none of the documents that came before
\* the failing one; it never returns normally.
C12_AllOrNothing ==
    (status # "ready" /\ SplittingFails) =>
        /\ status = "ValueError"
        /\ chunks = <<>>
        /\ error.type = "ValueError"
        /\ error.message[2] \in {NoPageContent.message, UnexpectedKeyword.message}

\* A batch whose second element fails after a good first document.
C12_Witness ==
    /\ status = "ValueError"
    /\ Len(documents) = 2
    /\ IsDocument(documents[1]) /\ Len(documents[1].page_content) > 0
    /\ ~IsDocument(documents[2])
    /\ call.method = "chunk_documents"
    /\ chunks = <<>>
    /\ error.message[2] = NoPageContent.message

(***************************************************************************)
(* Building the tool                                                       *)
(***************************************************************************)

\* A plausible slip: an overlap equal to the size is rejected too.
OverlapAcceptedBelowSize(chunk_size, chunk_overlap) == chunk_overlap < chunk_size

\* TextSplitter.__init__, reached from RecursiveCharacterTextSplitter(...):
\* it raises ValueError when chunk_overlap > chunk_size, and only then.
OverlapAccepted(chunk_size, chunk_overlap) == ~(chunk_overlap > chunk_size)

LargerOverlap ==
    [type |-> "ValueError",
     message |-> <<"Got a larger chunk overlap than chunk size, should be smaller.">>]

\* <<chunk_size, chunk_overlap>> asked for: overlap below, equal to and above
\* the size.
RequestedConfigs == {<<2, 1>>, <<2, 2>>, <<3, 3>>, <<2, 3>>, <<3, 4>>}

\* TextChunkingTool(chunk_size, chunk_overlap) is about to be built, and
\* there is one document to chunk.
InitConfig ==
    /\ ServiceIdle(Callers)
    /\ NoChat(<<>>) /\ NoUploads(NoFile, <<>>) /\ NewSession(1) /\ Others(NoAgent, NoHandlers)
    /\ \E cfg \in RequestedConfigs :
          tool = [chunk_size |-> cfg[1], chunk_overlap |-> cfg[2]]
    /\ \E t \in Texts(MaxLen) : documents = <<Document(t, SourceMeta(1))>>
    /\ call = [method |-> "none", content_type |-> "", detected_language |-> PyNone]
    /\ ran = <<>>
    /\ status = "new"
    /\ chunks = <<>>
    /\ error = NoException
    /\ earlier = [made |-> FALSE]

\* TextChunkingTool.__init__: it builds self.recursive_splitter, whose
\* constructor may raise.
Construct ==
    /\ status = "new"
    /\ IF OverlapAccepted(tool.chunk_size, tool.chunk_overlap)
       THEN /\ status' = "ready"
            /\ UNCHANGED <<ran, error>>
       ELSE /\ status' = "ValueError"
            /\ ran' = <<"__init__">>
            /\ error' = LargerOverlap
    /\ UNCHANGED <<tool, documents, call, chunks, earlier>>
    /\ UNCHANGED <<nsVars, chatVars, docVars, appVars, kbVars, raceVars>>

NextConfig == Construct \/ ChunkDocuments \/ ChunkByParagraphs \/ AdaptiveChunk

SpecConfig == InitConfig /\ [][NextConfig]_vars

\* The constructor turned the configuration down and nothing was chunked.
Rejected ==
    /\ status = "ValueError" /\ ran = <<"__init__">>
    /\ error = LargerOverlap
    /\ chunks = <<>>

\* C13 (as claimed): a configuration with chunk_overlap >= chunk_size, also
\* with chunk_overlap = chunk_size, is rejected with a validation error
\* before any chunk is produced.
C13_RejectsOverlapNotBelowSize ==
    (status # "new" /\ ChunkOverlap >= ChunkSize) => Rejected

\* C13 (amended): a configuration with chunk_overlap > chunk_size is
\* rejected with ValueError when the tool is built, before any chunk is
\* produced; a configuration with chunk_overlap = chunk_size is accepted:
\* the tool is built and both strategies chunk with it.
C13_RejectsOverlapAboveSize ==
    status # "new" =>
        /\ ChunkOverlap > ChunkSize => Rejected
        /\ ChunkOverlap <= ChunkSize => ran # <<"__init__">>
        /\ (/\ ChunkOverlap = ChunkSize /\ status # "ready"
            /\ ~HasLanguageSeparators(call.detected_language)
            /\ Strip(Text1) # <<>>) =>
               status = "returned" /\ Len(chunks) >= 1

\* A tool built with chunk_overlap = chunk_size cut a document in two.
C13_Witness ==
    /\ ChunkOverlap = ChunkSize
    /\ status = "returned"
    /\ Len(chunks) >= 2

\* A tool with chunk_overlap > chunk_size was turned down.
C13_WitnessRejected == ChunkOverlap > ChunkSize /\ Rejected

\* C14 (as claimed): a chunking call on an empty sequence of documents
\* returns an empty sequence of chunks and raises no error, whichever
\* method, content type and language.
C14_EmptyInput ==
    (status # "ready" /\ documents = <<>>) =>
        /\ status = "returned"
        /\ chunks = <<>>
        /\ error = NoException

(***************************************************************************)
(* Chunking the chunks again                                               *)
(***************************************************************************)

\* The method of the call, applied to docs.
Apply(c, docs) ==
    CASE c.method = "chunk_documents" -> chunk_documents(docs, c.detected_language)
      [] c.method = "chunk_by_paragraphs" ->
            chunk_by_paragraphs(docs, c.detected_language)
      [] c.method = "adaptive_chunk" ->
            adaptive_chunk(docs, c.content_type, c.detected_language)

\* The caller hands the chunks it got to the same method of the same tool,
\* with the same arguments.
ChunkAgain ==
    /\ status = "returned"
    /\ ran[1] # "again"
    /\ documents' = chunks
    /\ \E r \in {Apply(call, chunks)} :
           /\ ran' = <<"again">> \o r.ran
           /\ status' = r.status
           /\ chunks' = r.chunks
           /\ error' = r.error
    /\ UNCHANGED <<tool, call, earlier>>
    /\ UNCHANGED <<nsVars, chatVars, docVars, appVars, kbVars, raceVars>>

NextAgain == ChunkDocuments \/ ChunkByParagraphs \/ AdaptiveChunk \/ ChunkAgain

\* <<chunk_size, chunk_overlap>> of the tools whose chunks are chunked again.
AgainConfigs == {<<3, 1>>, <<4, 2>>}

InitAgain ==
    /\ ServiceIdle(Callers)
    /\ NoChat(<<>>) /\ NoUploads(NoFile, <<>>) /\ NewSession(1) /\ Others(NoAgent, NoHandlers)
    /\ \E cfg \in AgainConfigs, batch \in Batches : ToolAndBatch(cfg, batch)

SpecAgain == InitAgain /\ [][NextAgain]_vars

Contents(docs) == [i \in 1..Len(docs) |-> docs[i].page_content]

\* The chunks of a call were chunked again.
ChunkedAgain == status # "ready" /\ ran[1] = "again"

\* C15: chunks that are within chunk_size, handed again to the method that
\* produced them, come back the same in number, order and content.
C15_RechunkUnchanged ==
    (/\ ChunkedAgain
     /\ \A i \in 1..Len(documents) : Len(documents[i].page_content) <= ChunkSize) =>
        /\ status = "returned"
        /\ Contents(chunks) = Contents(documents)

\* A document was cut into several chunks, which were chunked again.
C15_Witness ==
    /\ ChunkedAgain
    /\ Len(documents) >= 2
    /\ \A i \in 1..Len(documents) :
          /\ Len(documents[i].page_content) <= ChunkSize
          /\ documents[i].metadata["source"] = 1
    /\ Contents(chunks) = Contents(documents)

(***************************************************************************)
(* Several calls of one tool on one batch                                  *)
(***************************************************************************)

\* Texts of paragraphs and lines of one letter.
SessionTexts ==
    {t \in Texts(MaxLen) :
        /\ t # <<>>
        /\ \A i \in 1..Len(t) : t[i] \in {"a", NL}
        /\ t[1] = "a" /\ t[Len(t)] = "a"}

SessionBatches ==
    {<<>>}
    \cup {<<Document(t, SourceMeta(1))>> : t \in SessionTexts}
    \cup {<<Document(t, SourceMeta(1)), Document(t, SourceMeta(2))>> :
             t \in SessionTexts \cap Texts(MaxPairLen)}

SessionConfigs == {<<2, 1>>, <<4, 2>>}

InitSession ==
    /\ ServiceIdle(Callers)
    /\ NoChat(<<>>) /\ NoUploads(NoFile, <<>>) /\ NewSession(1) /\ Others(NoAgent, NoHandlers)
    /\ \E cfg \in SessionConfigs, batch \in SessionBatches : ToolAndBatch(cfg, batch)

\* The call is over: the caller keeps what the first call was and gave, and
\* whether it made a different call after it, and is ready for another call
\* of the same tool with the same batch.
Return ==
    /\ status \in {"returned", "ValueError"}
    /\ earlier' =
          IF earlier.made
          THEN [earlier EXCEPT !.others = @ \/ call # earlier.call]
          ELSE [made |-> TRUE, chunk_size |-> earlier.chunk_size,
                chunk_overlap |-> earlier.chunk_overlap,
                documents |-> earlier.documents,
                call |-> call, status |-> status, chunks |-> chunks,
                error |-> error, others |-> FALSE]
    /\ status' = "ready"
    /\ call' = [method |-> "none", content_type |-> "", detected_language |-> PyNone]
    /\ ran' = <<>>
    /\ chunks' = <<>>
    /\ error' = NoException
    /\ UNCHANGED <<tool, documents>>
    /\ UNCHANGED <<nsVars, chatVars, docVars, appVars, kbVars, raceVars>>

NextSession == ChunkDocuments \/ ChunkByParagraphs \/ AdaptiveChunk \/ Return

SpecSession == InitSession /\ [][NextSession]_vars

SampleName ==
    <<
      "r", "e", "s", "o", "u", "r", "c", "e", "_", "1", "2", "3", "e",
      "4", "5", "6", "7", "_", "e", "8", "9", "b", "_", "1", "2", "d",
      "3", "_", "a", "4", "5", "6", "_", "4", "2", "6", "6", "1", "4",
      "1", "7", "4", "0", "0", "0", "_", "d", "o", "c", "u", "m", "e",
      "n", "t", "s"
    >>

\* 'resource_' + the canonical string of r with every hyphen turned into an
\* underscore + '_documents', character by character.
ReferenceName(r) ==
    LET canonical == UUIDStr(r)
    IN  <<"r", "e", "s", "o", "u", "r", "c", "e", "_">>
        \o [i \in 1..Len(canonical) |->
               IF canonical[i] = "-" THEN "_" ELSE canonical[i]]
        \o <<"_", "d", "o", "c", "u", "m", "e", "n", "t", "s">>

\* Letters, digits and the underscore.
IdentifierChars ==
    {HexDigits[i] : i \in 1..Len(HexDigits)}
    \cup {"g", "h", "i", "j", "k", "l", "m", "n", "o", "p", "q", "r", "s", "t",
          "u", "v", "w", "x", "y", "z", "_"}

\* C17: every collection name the service resolves, for whichever caller
\* and after whichever operations, is the reference name of its resource
\* identifier; it holds only letters, digits and underscores and always has
\* the same length, 9 + 36 + 10 characters; and the name of
\* 123e4567-e89b-12d3-a456-426614174000 is
\* resource_123e4567_e89b_12d3_a456_426614174000_documents.
C17_ReferenceName ==
    /\ \A c \in Callers : pc[c] # "idle" => coll[c] # <<>>
    /\ \A x \in Resolved :
          /\ x[2] = ReferenceName(x[1])
          /\ \A i \in 1..Len(x[2]) : x[2][i] \in IdentifierChars
          /\ Len(x[2]) = 9 + 36 + 10
          /\ x[1] = SampleResource => x[2] = SampleName

\* The sample identifier was resolved for a stored write and again by a
\* caller, after another identifier was resolved and written.
C17_Witness ==
    /\ <<SampleResource, SampleName>> \in writes
    /\ \E w \in writes : w[1] # SampleResource
    /\ \E c \in Callers :
          pc[c] # "idle" /\ rid[c] = SampleResource /\ coll[c] = SampleName

(***************************************************************************)
(* The chat: RAGChain.query_documents, render_chat_tab, handle_chat        *)
(***************************************************************************)

MaxTurns == 2

Questions == {"q1", "q2"}

\* What chain.invoke does with a question: it gives a response that has an
\* answer, a response that has none, or it raises.
ChainOutcomes ==
    {[raises |-> FALSE, response |-> [answer |-> <<"a1">>]],
     [raises |-> FALSE, response |-> [source_documents |-> <<>>]]}
    \cup {[raises |-> TRUE, cause |-> c] : c \in {"timeout", "relation does not exist"}}

\* f"I encountered an error: {str(e)}. Please try again."
ErrorReply(cause) == <<"I encountered an error: ", cause, ". Please try again.">>

\* What a function gives its caller: a value, or an exception.
Value(v) == [raised |-> FALSE, value |-> v]
Exception(e) == [raised |-> TRUE, exception |-> e]

\* A plausible slip: the chain is called outside the try.
query_documents_unguarded(outcome) ==
    IF outcome.raises THEN Exception(outcome.cause)
    ELSE IF "answer" \in DOMAIN outcome.response
         THEN Value(outcome.response.answer)
         ELSE Value(<<>>)

\* RAGChain.query_documents, for what self.chain.invoke does.
query_documents(outcome) ==
    IF outcome.raises THEN Value(ErrorReply(outcome.cause))
    ELSE IF "answer" \in DOMAIN outcome.response
         THEN Value(outcome.response.answer)
         ELSE Value(<<>>)

\* handle_chat of dev-docs-chat: response["answer"] raises KeyError when the
\* response has no answer, and that is caught as well.
handle_chat(outcome) ==
    IF outcome.raises THEN Value(ErrorReply(outcome.cause))
    ELSE IF "answer" \in DOMAIN outcome.response
         THEN Value(outcome.response.answer)
         ELSE Value(ErrorReply("'answer'"))

Message(role, content) == [role |-> role, content |-> content]

InitChat ==
    /\ ServiceIdle(Callers)
    /\ NoChat(<<>>) /\ NoUploads(NoFile, <<>>) /\ NewSession(1) /\ Others(NoAgent, NoHandlers)
    /\ ToolAndBatch(<<DefaultChunkSize, DefaultChunkOverlap>>, <<>>)

\* _initialize_rag_chain: the chain of the current resource, or, when
\* RAGChain(...) raises, the error is shown and the session keeps what it had.
_initialize_rag_chain(chain, resource, ok) ==
    IF ok THEN [isNone |-> FALSE, resource_id |-> resource] ELSE chain

\* A plausible slip: the reply is not appended.
ExchangeUnanswered(user_input, reply) == <<Message("user", user_input)>>

\* What render_chat_tab appends for a question: the user's message, then
\* the assistant's.
Exchange(user_input, reply) ==
    <<Message("user", user_input), Message("assistant", reply)>>

\* A question typed into the chat: the script runs, __init__ initialises the
\* chain, and render_chat_tab answers, or warns that there is no chain.
RenderChatTab ==
    /\ Len(chat_history) < 2 * MaxTurns
    /\ \E ok \in BOOLEAN, user_input \in Questions, outcome \in ChainOutcomes :
          LET chain == _initialize_rag_chain(rag_chain, current_resource_id, ok)
              r == query_documents(outcome)
              reply == IF r.raised THEN ErrorReply(r.exception) ELSE r.value
          IN  /\ rag_chain' = chain
              /\ IF chain.isNone
                 THEN /\ chat_history' = chat_history
                      /\ chat' = [handler |-> "none"]
                 ELSE /\ chat_history' = chat_history \o Exchange(user_input, reply)
                      /\ chat' = [handler |-> "render_chat_tab", question |-> user_input,
                                  outcome |-> outcome, result |-> r,
                                  resource_id |-> chain.resource_id]
    /\ UNCHANGED <<current_resource_id, collection, upload>>
    /\ UNCHANGED <<nsVars, chVars, docVars, kbVars, raceVars>>

\* Clear Chat History pressed: the script runs, render_chat_tab empties the
\* history and st.rerun() runs the script again.
ClearChat ==
    /\ chat_history # <<>>
    /\ chat_history' = <<>>
    /\ chat' = [handler |-> "none"]
    /\ \E ok1 \in BOOLEAN, ok2 \in BOOLEAN :
          rag_chain' = _initialize_rag_chain(
                          _initialize_rag_chain(rag_chain, current_resource_id, ok1),
                          current_resource_id, ok2)
    /\ UNCHANGED <<current_resource_id, collection, upload>>
    /\ UNCHANGED <<nsVars, chVars, docVars, kbVars, raceVars>>

\* handle_chat(message, history) of dev-docs-chat.
HandleChat ==
    /\ \E m \in Questions, outcome \in ChainOutcomes :
          chat' = [handler |-> "handle_chat", question |-> m,
                   outcome |-> outcome, result |-> handle_chat(outcome)]
    /\ UNCHANGED chat_history
    /\ UNCHANGED <<nsVars, chVars, docVars, appVars, kbVars, raceVars>>

NextChat == RenderChatTab \/ ClearChat \/ HandleChat

SpecChat == InitChat /\ [][NextChat]_vars

\* The chain failed while answering the last question.
ChainFailed == chat.handler # "none" /\ chat.outcome.raises

\* C18: when the chain fails while answering a question, the handler does
\* not raise: it returns 'I encountered an error: <cause>. Please try
\* again.', and the chat tab appends the question and that reply as the
\* assistant's message.
C18_ChatErrorsRendered ==
    ChainFailed =>
        /\ ~chat.result.raised
        /\ chat.result.value = ErrorReply(chat.outcome.cause)
        /\ chat.handler = "render_chat_tab" =>
              /\ Len(chat_history) >= 2
              /\ chat_history[Len(chat_history) - 1]
                    = Message("user", chat.question)
              /\ chat_history[Len(chat_history)]
                    = Message("assistant", ErrorReply(chat.outcome.cause))

\* The chain failed on the second question of the chat tab.
C18_Witness ==
    /\ ChainFailed
    /\ chat.handler = "render_chat_tab"
    /\ Len(chat_history) = 4
    /\ chat_history[4].content = ErrorReply(chat.outcome.cause)

(***************************************************************************)
(* dev-docs-chat: ingestion and deletion of files and URLs                 *)
(*                                                                         *)
(* A string is a sequence of tokens: a blank, a slash, a scheme, a word.   *)
(***************************************************************************)

MaxStored == 2

\* os.path.basename: what follows the last slash.
basename(path) ==
    LET slashes == {i \in 1..Len(path) : path[i] = "/"}
        from == IF slashes = {} THEN 0
                ELSE CHOOSE i \in slashes : \A j \in slashes : j <= i
    IN  SubSeq(path, from + 1, Len(path))

\* The files that can be handed to the upload: under a temporary directory,
\* in the working directory, and one whose name starts with a blank.
FilePaths ==
    {<<"/", "tmp", "/", "a.txt">>, <<"a.txt">>, <<"/", "tmp", "/", " ", "a.txt">>}

\* The texts that can be typed as a URL.
Urls ==
    {<<>>, <<"https://", "host">>, <<" ", "https://", "host">>, <<"http://", "host">>,
     <<"https://", "[">>}

\* What the world does during an upload: the file exists or not, the URL
\* answers or not, the loader gives documents, none, or raises, and the
\* embedding call succeeds or raises.
UploadEnvs ==
    [exists : BOOLEAN, reachable : BOOLEAN, load : {"docs", "empty", "raises"},
     embed : {"ok", "raises"}]

\* A chunk in a vector store, with the metadata the deletion filters on.
StoredChunk(source_type, source_path) ==
    [source_type |-> source_type, source_path |-> source_path]

\* get_uploaded_files / get_uploaded_urls: [line.strip() for line in f.readlines()]
get_uploaded(record) ==
    IF ~record.exists THEN <<>>
    ELSE [i \in 1..Len(record.lines) |-> Strip(record.lines[i])]

\* save_uploaded_file_record / save_uploaded_url_record of
\* handle_*_ingestion: open(..., "a"), f.write(f"{name.strip()}\n")
save_uploaded_record(record, name) ==
    [exists |-> TRUE, lines |-> Append(record.lines, Strip(name))]

\* save_uploaded_url_record of app.py: f.write(f"{url}\n")
app_save_uploaded_url_record(record, url) ==
    [exists |-> TRUE, lines |-> Append(record.lines, url)]

Keep(lines, name) == SelectSeq(lines, LAMBDA l : l # name)

\* delete_file_record / delete_url_record of handle_*_ingestion
delete_record(record, name) ==
    LET names == get_uploaded(record)
    IN  IF names = <<>> THEN record
        ELSE [exists |-> TRUE, lines |-> Keep(names, name)]

\* delete_url_record of app.py: open(..., "w") in every case
app_delete_url_record(record, url) ==
    [exists |-> TRUE, lines |-> Keep(get_uploaded(record), url)]

\* check_duplicate_file / check_duplicate_url
check_duplicate(record, name) ==
    \E i \in 1..Len(get_uploaded(record)) : get_uploaded(record)[i] = name

\* urlparse(url): a bracket that opens without closing, or closes without
\* opening, in the host makes it raise ValueError("Invalid IPv6 URL").
urlparse_raises(url) ==
    \E i \in 1..Len(url) : url[i] \in {"[", "]"}

\* validate_and_check_url: "True", "False", or the exception that leaves it.
\* Only requests.head is inside its try.
validate_and_check_url(url, env) ==
    IF ~(Len(url) >= 1 /\ url[1] = "https://") THEN "False"
    ELSE IF urlparse_raises(url) THEN "ValueError"
    ELSE IF ~(Len(url) >= 2) THEN "False"
    ELSE IF env.reachable THEN "True" ELSE "False"

\* _collection.delete(where={"source_path": source_path})
delete_where(store, source_path) ==
    SelectSeq(store, LAMBDA c : c.source_path # source_path)

\* What a handler returns, and what it did: the text, the name it is about,
\* whether that name was a line of the record file before the call, and how
\* many chunks the call stored.
Told(handler, arg, kind, about, recorded, stored) ==
    [handler |-> handler, arg |-> arg, kind |-> kind, about |-> about,
     recorded |-> recorded, stored |-> stored]

InRecord(record, name) == \E i \in 1..Len(record.lines) : record.lines[i] = name

\* The file handed to file_upload_handler: None, or a file with a path.
NoInputFile == [isNone |-> TRUE, name |-> <<>>]
InputFiles == {NoInputFile} \cup {[isNone |-> FALSE, name |-> f] : f \in FilePaths}

\* file_upload_handler of handle_file_ingestion.py; the text it returns.
file_upload_handler(input_file, env) ==
    LET file_path == input_file.name
        file_name == basename(file_path)
    IN  IF input_file.isNone THEN "Please select a file to upload"
        ELSE IF ~env.exists THEN "File does not exist"
        ELSE IF check_duplicate(file_record, file_name) THEN "is already uploaded"
        ELSE IF env.load # "docs" THEN "No docs found from the uploaded file"
        ELSE IF env.embed = "raises" THEN "Error processing file"
        ELSE "processed and embedded successfully"

Succeeded(kind) == kind = "processed and embedded successfully"

FileUploadHandler ==
    /\ Len(chroma) + Len(pinecone) + Len(app_chroma) < MaxStored
    /\ \E input_file \in InputFiles, env \in UploadEnvs :
          LET kind == file_upload_handler(input_file, env)
              file_path == input_file.name
              file_name == basename(file_path)
          IN  /\ chroma' = IF Succeeded(kind)
                            THEN Append(chroma, StoredChunk("file", file_path))
                            ELSE chroma
              /\ file_record' = IF Succeeded(kind)
                                 THEN save_uploaded_record(file_record, file_name)
                                 ELSE file_record
              /\ message' = Told("file_upload_handler", file_path, kind, file_name,
                                  InRecord(file_record, file_name),
                                  IF Succeeded(kind) THEN 1 ELSE 0)
    /\ UNCHANGED <<url_record, app_url_record, pinecone, app_chroma>>
    /\ UNCHANGED <<nsVars, chVars, chatVars, appVars, kbVars, raceVars>>

\* url_upload_handler of handle_url_ingestion.py; the text it returns.
url_upload_handler(url, env) ==
    LET input_url == Strip(url)
    IN  IF input_url = <<>> THEN "Please enter a URL to ingest"
        ELSE IF check_duplicate(url_record, input_url) THEN "is already ingested"
        ELSE IF validate_and_check_url(input_url, env) = "ValueError"
             THEN "raised ValueError"
        ELSE IF validate_and_check_url(input_url, env) = "False"
             THEN "URL is not valid"
        ELSE IF env.load = "raises" THEN "Error processing URL"
        ELSE IF env.load = "empty" THEN "No documents found from the URL"
        ELSE IF env.embed = "raises" THEN "Error processing URL"
        ELSE "processed and embedded successfully"

\* It embeds with chunk_and_embed_documents of vectorstore.py, into the
\* Pinecone store.
UrlUploadHandler ==
    /\ Len(chroma) + Len(pinecone) + Len(app_chroma) < MaxStored
    /\ \E url \in Urls, env \in UploadEnvs :
          LET kind == url_upload_handler(url, env)
              input_url == Strip(url)
          IN  /\ pinecone' = IF Succeeded(kind)
                              THEN Append(pinecone, StoredChunk("url", input_url))
                              ELSE pinecone
              /\ url_record' = IF Succeeded(kind)
                                THEN save_uploaded_record(url_record, input_url)
                                ELSE url_record
              /\ message' = Told("url_upload_handler", url, kind, input_url,
                                  InRecord(url_record, input_url),
                                  IF Succeeded(kind) THEN 1 ELSE 0)
    /\ UNCHANGED <<file_record, app_url_record, chroma, app_chroma>>
    /\ UNCHANGED <<nsVars, chVars, chatVars, appVars, kbVars, raceVars>>

\* url_upload_handler of app.py; the text it returns.
app_url_upload_handler(url, env) ==
    IF Strip(url) = <<>> THEN "Please enter a URL to ingest"
    ELSE IF \E i \in 1..Len(get_uploaded(app_url_record)) :
                get_uploaded(app_url_record)[i] = url
         THEN "is already ingested"
    ELSE IF validate_and_check_url(Strip(url), env) = "ValueError"
         THEN "raised ValueError"
    ELSE IF validate_and_check_url(Strip(url), env) = "False"
         THEN "URL is not valid"
    ELSE IF env.load = "raises" THEN "Error processing URL"
    ELSE IF env.load = "empty" THEN "No documents found from the URL"
    ELSE IF env.embed = "raises" THEN "Error processing URL"
    ELSE "processed and embedded successfully"

\* The loader records the URL it was given as the source of each document.
AppUrlUploadHandler ==
    /\ Len(chroma) + Len(pinecone) + Len(app_chroma) < MaxStored
    /\ \E url \in Urls, env \in UploadEnvs :
          LET kind == app_url_upload_handler(url, env)
          IN  /\ app_chroma' = IF Succeeded(kind)
                                THEN Append(app_chroma, StoredChunk("url", url))
                                ELSE app_chroma
              /\ app_url_record' =
                    IF Succeeded(kind)
                    THEN app_save_uploaded_url_record(app_url_record, url)
                    ELSE app_url_record
              /\ message' = Told("app.url_upload_handler", url, kind, url,
                                  InRecord(app_url_record, url),
                                  IF Succeeded(kind) THEN 1 ELSE 0)
    /\ UNCHANGED <<file_record, url_record, chroma, pinecone>>
    /\ UNCHANGED <<nsVars, chVars, chatVars, appVars, kbVars, raceVars>>

\* What can be picked for deletion: nothing, or a name as the record file
\* lists it.
Listed(record) ==
    {<<>>} \cup {get_uploaded(record)[i] : i \in 1..Len(get_uploaded(record))}

\* delete_embeddings_by_source: the store's delete may raise, which is
\* caught and logged; the store is then as it was.
delete_embeddings_by_source(store, source_path, fails) ==
    IF fails THEN store ELSE delete_where(store, source_path)

\* delete_document of manage_data.py; the text it returns.
delete_document(file_name) ==
    IF file_name = <<>> THEN "Please select a file to delete from the dropdown"
    ELSE IF ~file_record.exists THEN "No files to delete."
    ELSE "Deleted File"

Deleted(kind) == kind \in {"Deleted File", "Deleted URL"}

DeleteDocument ==
    /\ \E file_name \in Listed(file_record), fails \in BOOLEAN :
          LET kind == delete_document(file_name)
          IN  /\ chroma' = IF Deleted(kind)
                            THEN delete_embeddings_by_source(chroma, file_name, fails)
                            ELSE chroma
              /\ file_record' = IF Deleted(kind)
                                 THEN delete_record(file_record, file_name)
                                 ELSE file_record
              /\ message' = Told("delete_document", file_name, kind, file_name,
                                  InRecord(file_record, file_name), 0)
    /\ UNCHANGED <<url_record, app_url_record, pinecone, app_chroma>>
    /\ UNCHANGED <<nsVars, chVars, chatVars, appVars, kbVars, raceVars>>

\* delete_url of manage_data.py; the text it returns.
delete_url(url) ==
    IF url = <<>> THEN "Please select a URL to delete from the dropdown"
    ELSE IF ~url_record.exists THEN "No URLs to delete."
    ELSE "Deleted URL"

\* It deletes from shared_utils.vector_store, the Chroma store.
DeleteUrl ==
    /\ \E url \in Listed(url_record), fails \in BOOLEAN :
          LET kind == delete_url(url)
          IN  /\ chroma' = IF Deleted(kind)
                            THEN delete_embeddings_by_source(chroma, url, fails)
                            ELSE chroma
              /\ url_record' = IF Deleted(kind)
                                THEN delete_record(url_record, url)
                                ELSE url_record
              /\ message' = Told("delete_url", url, kind, url,
                                  InRecord(url_record, url), 0)
    /\ UNCHANGED <<file_record, app_url_record, pinecone, app_chroma>>
    /\ UNCHANGED <<nsVars, chVars, chatVars, appVars, kbVars, raceVars>>

\* delete_url of app.py: vector_store.delete is not guarded, so when it
\* raises the handler ends there.
AppDeleteUrl ==
    /\ \E url \in Listed(app_url_record), fails \in BOOLEAN :
          LET kind == IF url = <<>>
                      THEN "Please select a URL to delete from the dropdown"
                      ELSE IF fails THEN "raised" ELSE "Deleted URL"
          IN  /\ app_chroma' = IF Deleted(kind) THEN delete_where(app_chroma, url)
                                ELSE app_chroma
              /\ app_url_record' = IF Deleted(kind)
                                    THEN app_delete_url_record(app_url_record, url)
                                    ELSE app_url_record
              /\ message' = Told("app.delete_url", url, kind, url,
                                  InRecord(app_url_record, url), 0)
    /\ UNCHANGED <<file_record, url_record, chroma, pinecone>>
    /\ UNCHANGED <<nsVars, chVars, chatVars, appVars, kbVars, raceVars>>

\* clear_vector_store and clean_record_files of manage_data.py, inside the
\* try of clear_all_data: the Chroma store of shared_utils is emptied, then
\* the uploads directory is removed. When the store raises, the except
\* prints and the function returns with nothing changed.
ClearAllData ==
    /\ \E fails \in BOOLEAN :
          /\ chroma' = IF fails THEN chroma ELSE <<>>
          /\ file_record' = IF fails THEN file_record ELSE NoFile
          /\ url_record' = IF fails THEN url_record ELSE NoFile
          /\ message' = Told("clear_all_data", <<>>,
                              IF fails THEN "Error clearing data"
                              ELSE "Deleted all uploaded files and URLs records",
                              <<>>, FALSE, 0)
    /\ UNCHANGED <<app_url_record, pinecone, app_chroma>>
    /\ UNCHANGED <<nsVars, chVars, chatVars, appVars, kbVars, raceVars>>

\* clear_all_data of app.py, on its own store and record files.
AppClearAllData ==
    /\ \E fails \in BOOLEAN :
          /\ app_chroma' = IF fails THEN app_chroma ELSE <<>>
          /\ app_url_record' = IF fails THEN app_url_record ELSE NoFile
          /\ message' = Told("app.clear_all_data", <<>>,
                              IF fails THEN "Error clearing data"
                              ELSE "All data cleared successfully!",
                              <<>>, FALSE, 0)
    /\ UNCHANGED <<file_record, url_record, chroma, pinecone>>
    /\ UNCHANGED <<nsVars, chVars, chatVars, appVars, kbVars, raceVars>>

InitDocs ==
    /\ ServiceIdle(Callers)
    /\ NoChat(<<>>) /\ NoUploads(NoFile, <<>>) /\ NewSession(1) /\ Others(NoAgent, NoHandlers)
    /\ ToolAndBatch(<<DefaultChunkSize, DefaultChunkOverlap>>, <<>>)

NextDocs ==
    \/ FileUploadHandler \/ UrlUploadHandler \/ AppUrlUploadHandler
    \/ DeleteDocument \/ DeleteUrl \/ AppDeleteUrl
    \/ ClearAllData \/ AppClearAllData

SpecDocs == InitDocs /\ [][NextDocs]_vars

\* The chunks of all stores that ingestion made from the named file or URL.
ChunksOf(store, source_type, name) ==
    {i \in 1..Len(store) :
        /\ store[i].source_type = source_type
        /\ Strip(IF source_type = "file" THEN basename(store[i].source_path)
                  ELSE store[i].source_path) = Strip(name)}

\* C19: after delete_document or delete_url reports a deletion, the name is
\* no longer in its record file and no chunk ingested from that file or URL
\* remains in a vector store.
C19_DeletionRemovesIngested ==
    /\ (message.handler = "delete_document" /\ Deleted(message.kind)) =>
          /\ ~InRecord(file_record, message.arg)
          /\ ChunksOf(chroma, "file", message.arg) = {}
    /\ (message.handler = "delete_url" /\ Deleted(message.kind)) =>
          /\ ~InRecord(url_record, message.arg)
          /\ ChunksOf(chroma, "url", message.arg) = {}
          /\ ChunksOf(pinecone, "url", message.arg) = {}

NoLineTwice(record) ==
    \A i, j \in 1..Len(record.lines) :
        record.lines[i] = record.lines[j] => i = j

\* C20: an upload of a file name or URL that its record file already lists
\* is rejected and stores nothing, and no record file holds a line twice.
C20_DuplicateRejected ==
    /\ NoLineTwice(file_record)
    /\ NoLineTwice(url_record)
    /\ NoLineTwice(app_url_record)
    /\ (/\ message.handler \in {"file_upload_handler", "url_upload_handler",
                                  "app.url_upload_handler"}
        /\ message.recorded)
          => /\ ~Succeeded(message.kind)
             /\ message.stored = 0

\* The texts the two upload handlers return when they did not ingest.
ErrorTexts ==
    {"Please select a file to upload", "File does not exist", "is already uploaded",
     "No docs found from the uploaded file", "Error processing file",
     "Please enter a URL to ingest", "is already ingested", "URL is not valid",
     "No documents found from the URL", "Error processing URL"}

\* C21: a call of file_upload_handler or url_upload_handler either ingests
\* and records the source, or returns an error text (it raises nothing) and
\* leaves the record files as they were.
C21_RecordOnlyAfterSuccess ==
    [][message'.handler \in {"file_upload_handler", "url_upload_handler"} =>
          \/ /\ Succeeded(message'.kind)
             /\ message'.stored = 1
          \/ /\ message'.kind \in ErrorTexts
             /\ file_record' = file_record
             /\ url_record' = url_record]_vars

\* C22: after clear_all_data returns, whatever was ingested before, the
\* vector stores hold no documents and both record lists are empty.
C22_ClearAll ==
    /\ message.handler = "clear_all_data" =>
          /\ chroma = <<>> /\ pinecone = <<>>
          /\ get_uploaded(file_record) = <<>>
          /\ get_uploaded(url_record) = <<>>
    /\ message.handler = "app.clear_all_data" =>
          /\ app_chroma = <<>>
          /\ get_uploaded(app_url_record) = <<>>

(***************************************************************************)
(* The pgvector app: the upload tab                                        *)
(***************************************************************************)

MaxChunksStored == 2
MaxNewResources == 2

\* The suffixes of the names of uploaded files.
Suffixes ==
    {".pdf", ".PDF", ".docx", ".txt", ".md", ".csv", ".xlsx", ".xls", ".png", ""}

\* str.lower() of a suffix
lower(suffix) == IF suffix = ".PDF" THEN ".pdf" ELSE suffix

\* _get_file_extension: Path(filename).suffix.lower(); a file name is
\* <<stem, suffix>>.
_get_file_extension(filename) == lower(filename[2])

\* The file types the upload tab lists as supported.
SupportedTypes == {".pdf", ".docx", ".txt", ".md", ".csv", ".xlsx", ".xls"}

\* The public operations each extraction tool defines.
ToolOperations ==
    [pdf_tool   |-> {"extract_text"},
     docx_tool  |-> {"extract_text"},
     text_tool  |-> {"extract_text", "extract_markdown", "detect_encoding"},
     csv_tool   |-> {"extract_csv"},
     excel_tool |-> {"extract_text"}]

\* An uploaded file: its name, and whether its content is a well-formed
\* file of the type its suffix names.
UploadedFiles ==
    [name : {<<"f", x>> : x \in Suffixes}, wellformed : BOOLEAN]

\* The tool and the operation _extract_documents calls for an extension.
Extraction(file_extension) ==
    IF file_extension = ".pdf"
    THEN [tool |-> "pdf_tool", operation |-> "extract_text"]
    ELSE IF file_extension = ".docx"
    THEN [tool |-> "docx_tool", operation |-> "extract_text"]
    ELSE IF file_extension \in {".txt", ".md"}
    THEN [tool |-> "text_tool", operation |-> "extract_text"]
    ELSE IF file_extension = ".csv"
    THEN [tool |-> "csv_tool", operation |-> "extract_text"]
    ELSE IF file_extension \in {".xlsx", ".xls"}
    THEN [tool |-> "excel_tool", operation |-> "extract_text"]
    ELSE [tool |-> "none", operation |-> "none"]

\* _extract_documents: the documents of the file, [] for an unsupported
\* type, or the exception that leaves it: AttributeError when the tool has
\* no such operation, ValueError when the tool cannot read the file.
_extract_documents(uploaded_file) ==
    LET file_extension == _get_file_extension(uploaded_file.name)
        e == Extraction(file_extension)
    IN  IF e.tool = "none" THEN Value(<<>>)
        ELSE IF e.operation \notin ToolOperations[e.tool]
             THEN Exception("AttributeError")
        ELSE IF ~uploaded_file.wellformed THEN Exception("ValueError")
        ELSE Value(<<[source_file |-> uploaded_file.name]>>)

\* The chunks of documents, in the collection of a resource.
StoredChunks(docs, resource) ==
    [i \in 1..Len(docs) |-> [resource_id |-> resource, source_file |-> docs[i].source_file]]

\* The loop of render_document_upload_tab over one uploaded file: what was
\* said about it, and what _process_and_store_documents stored. An
\* exception of either step is caught and shown.
ProcessFile(uploaded_file, store_ok, resource) ==
    LET r == _extract_documents(uploaded_file)
    IN  IF r.raised
        THEN [said |-> <<"Failed to process", r.exception>>, stored |-> <<>>, counted |-> 0]
        ELSE IF r.value = <<>>
        THEN [said |-> IF Extraction(_get_file_extension(uploaded_file.name)).tool = "none"
                       THEN <<"Unsupported file type">> ELSE <<>>,
              stored |-> <<>>, counted |-> 0]
        ELSE IF ~store_ok
        THEN [said |-> <<"Failed to process and store documents">>,
              stored |-> <<>>, counted |-> Len(r.value)]
        ELSE [said |-> <<"Successfully stored">>,
              stored |-> StoredChunks(r.value, resource), counted |-> Len(r.value)]

\* What is uploaded with one press of the button: one file, or two.
UploadBatches ==
    {<<f>> : f \in UploadedFiles}
    \cup {<<f, g>> : f \in {u \in UploadedFiles : u.name[2] \in {".csv", ".png"} /\ u.wellformed},
                     g \in {u \in UploadedFiles : u.name[2] \in {".pdf", ".csv"} /\ u.wellformed}}

RECURSIVE AllStored(_, _)
AllStored(results, i) ==
    IF i > Len(results) THEN <<>>
    ELSE results[i].stored \o AllStored(results, i + 1)

\* A run of the script with nothing pressed: StreamlitRAGApp.__init__.
Rerun ==
    /\ \E ok \in BOOLEAN :
          rag_chain' = _initialize_rag_chain(rag_chain, current_resource_id, ok)
    /\ UNCHANGED <<current_resource_id, collection, upload>>
    /\ UNCHANGED <<nsVars, chVars, chatVars, docVars, kbVars, raceVars>>

\* New Resource pressed: _create_new_resource draws an identifier, empties
\* the chat and initialises the chain; st.rerun() then runs the script again,
\* whose __init__ initialises the chain once more.
CreateNewResource ==
    /\ current_resource_id < 1 + MaxNewResources
    /\ \E ok1 \in BOOLEAN, ok2 \in BOOLEAN :
          LET new_resource_id == current_resource_id + 1
          IN  /\ current_resource_id' = new_resource_id
              /\ chat_history' = <<>>
              /\ chat' = [handler |-> "_create_new_resource"]
              /\ rag_chain' = _initialize_rag_chain(
                                  _initialize_rag_chain(rag_chain, new_resource_id, ok1),
                                  new_resource_id, ok2)
    /\ UNCHANGED <<collection, upload>>
    /\ UNCHANGED <<nsVars, chVars, docVars, kbVars, raceVars>>

\* Process & Store Documents pressed with files chosen: the script runs,
\* and render_document_upload_tab goes through the files.
ProcessAndStoreDocuments ==
    /\ Len(collection) < MaxChunksStored
    /\ \E uploaded_files \in UploadBatches, ok \in BOOLEAN, store_ok \in BOOLEAN :
          LET results == [i \in 1..Len(uploaded_files) |->
                             ProcessFile(uploaded_files[i], store_ok, current_resource_id)]
          IN  /\ rag_chain' = _initialize_rag_chain(rag_chain, current_resource_id, ok)
              /\ collection' = collection \o AllStored(results, 1)
              /\ upload' = [pressed |-> TRUE, files |-> uploaded_files,
                            store_ok |-> store_ok, results |-> results,
                            resource_id |-> current_resource_id]
    /\ UNCHANGED current_resource_id
    /\ UNCHANGED <<nsVars, chVars, chatVars, docVars, kbVars, raceVars>>

InitUpload ==
    /\ ServiceIdle(Callers)
    /\ NoChat(<<>>) /\ NoUploads(NoFile, <<>>) /\ NewSession(1) /\ Others(NoAgent, NoHandlers)
    /\ ToolAndBatch(<<DefaultChunkSize, DefaultChunkOverlap>>, <<>>)

NextUpload == Rerun \/ CreateNewResource \/ ProcessAndStoreDocuments

SpecUpload == InitUpload /\ [][NextUpload]_vars

InCollection(chunk) == \E i \in 1..Len(collection) : collection[i] = chunk

\* C23: of the files uploaded with one press, each well-formed file of a type
\* the tab lists as supported is dispatched to an operation its tool has,
\* and its documents are stored in the collection of the current resource
\* (the database permitting); a file of any other extension gives no
\* documents and nothing of it is stored.
C23_SupportedTypes ==
    upload.pressed =>
        \A i \in 1..Len(upload.files) :
            LET f == upload.files[i]
                file_extension == _get_file_extension(f.name)
                e == Extraction(file_extension)
                r == upload.results[i]
            IN  /\ file_extension \in SupportedTypes =>
                      /\ e.operation \in ToolOperations[e.tool]
                      /\ (f.wellformed /\ upload.store_ok) =>
                            InCollection([resource_id |-> upload.resource_id,
                                          source_file |-> f.name])
                /\ file_extension \notin SupportedTypes =>
                      /\ r.stored = <<>>
                      /\ r.counted = 0

(***************************************************************************)
(* The drug-treatment agent: DrugTreatmentRAGAgent.start                   *)
(***************************************************************************)

MaxPages == 2
MaxStarts == 2

\* The agent after __init__, beside the folder of PDFs and the persistence
\* directory it finds: no retriever, no tools, no graph.
Agent(folder_exists, pages, db_exists, db_docs, starts) ==
    [at |-> "created",
     folder_exists |-> folder_exists,   \* os.path.exists(self.folder_path)
     pages |-> pages,                   \* the pages of the PDFs in the folder
     db_exists |-> db_exists,           \* os.path.exists(self.db_name)
     db_docs |-> db_docs,               \* the documents in the persisted collection
     retriever |-> [isNone |-> TRUE],
     did |-> <<>>,                      \* what this process did, in order
     existed |-> db_exists,             \* os.path.exists(self.db_name) when start() began
     docs_before |-> db_docs,
     starts |-> starts]

Does(k, step) == [k EXCEPT !.did = Append(@, step)]

\* load_existing_vector_store
load_existing_vector_store(k) ==
    [Does(Does(k, "Chroma"), "retriever")
        EXCEPT !.retriever = [isNone |-> FALSE, over |-> k.db_docs]]

\* save_to_vector_store: Chroma.from_documents makes the store in the
\* persistence directory and then embeds the chunks into it; when the
\* embedding raises, the directory is left with an empty collection.
save_to_vector_store(k, n_chunks, embed_ok) ==
    LET cleared == IF k.db_exists
                   THEN [Does(k, "delete_collection") EXCEPT !.db_docs = 0]
                   ELSE k
        made == [Does(cleared, "from_documents") EXCEPT !.db_exists = TRUE]
    IN  IF ~embed_ok THEN [made EXCEPT !.at = "raised"]
        ELSE [Does(made, "retriever")
                 EXCEPT !.db_docs = @ + n_chunks,
                        !.retriever = [isNone |-> FALSE, over |-> made.db_docs + n_chunks]]

\* A plausible slip: the knowledge base is made again on every start.
setup_knowledge_base_always(k, load_ok, embed_ok) ==
    LET loading == Does(k, "load_documents")
    IN  IF ~k.folder_exists \/ ~load_ok THEN [loading EXCEPT !.at = "raised"]
        ELSE LET saved == save_to_vector_store(Does(loading, "split_documents"),
                                               k.pages, embed_ok)
             IN  IF saved.at = "raised" THEN saved
                 ELSE [saved EXCEPT !.at = "knowledge_base"]

\* setup_knowledge_base: load_documents raises when the folder is missing
\* or a PDF cannot be read; split_documents gives a chunk for each page.
setup_knowledge_base(k, load_ok, embed_ok) ==
    IF k.db_exists
    THEN [load_existing_vector_store(k) EXCEPT !.at = "knowledge_base"]
    ELSE LET loading == Does(k, "load_documents")
         IN  IF ~k.folder_exists \/ ~load_ok THEN [loading EXCEPT !.at = "raised"]
             ELSE LET saved == save_to_vector_store(Does(loading, "split_documents"),
                                                    k.pages, embed_ok)
                  IN  IF saved.at = "raised" THEN saved
                      ELSE [saved EXCEPT !.at = "knowledge_base"]

AgentFrame ==
    /\ UNCHANGED race
    /\ UNCHANGED <<nsVars, chVars, chatVars, docVars, appVars>>

\* start(): self.setup_knowledge_base()
SetupKnowledgeBase ==
    /\ kb.at = "created"
    /\ \E load_ok \in BOOLEAN, embed_ok \in BOOLEAN :
          kb' = setup_knowledge_base(kb, load_ok, embed_ok)
    /\ AgentFrame

\* start(): self.setup_llm_and_tools()
SetupLlmAndTools ==
    /\ kb.at = "knowledge_base"
    /\ kb' = [Does(kb, "tools") EXCEPT !.at = "tools"]
    /\ AgentFrame

\* start(): self.build_graph()
BuildGraph ==
    /\ kb.at = "tools"
    /\ kb' = [Does(kb, "graph") EXCEPT !.at = "graph"]
    /\ AgentFrame

\* The process ended (exit typed, or the exception) and the program is
\* started again: a new agent beside the same folder and directory.
StartAgain ==
    /\ kb.at \in {"graph", "raised"}
    /\ kb.starts < MaxStarts
    /\ kb' = Agent(kb.folder_exists, kb.pages, kb.db_exists, kb.db_docs, kb.starts + 1)
    /\ AgentFrame

InitAgent ==
    /\ ServiceIdle(Callers)
    /\ NoChat(<<>>) /\ NoUploads(NoFile, <<>>) /\ NewSession(1)
    /\ ToolAndBatch(<<DefaultChunkSize, DefaultChunkOverlap>>, <<>>)
    /\ \E folder_exists \in BOOLEAN, pages \in 0..MaxPages,
          db_exists \in BOOLEAN, db_docs \in 0..MaxPages :
          /\ folder_exists \/ pages = 0
          /\ db_exists \/ db_docs = 0
          /\ Others(Agent(folder_exists, pages, db_exists, db_docs, 1), NoHandlers)

NextAgent == SetupKnowledgeBase \/ SetupLlmAndTools \/ BuildGraph \/ StartAgain

SpecAgent == InitAgent /\ [][NextAgent]_vars

Did(step) == \E i \in 1..Len(kb.did) : kb.did[i] = step

PrecedesInDid(step, later) ==
    \E i, j \in 1..Len(kb.did) : i < j /\ kb.did[i] = step /\ kb.did[j] = later

Handlers == {"h1", "h2"}

RaceNames == {<<"a.txt">>, <<"b.txt">>}

\* A record file with one upload made earlier, and its chunk.
OneFile(name) == [exists |-> TRUE, lines |-> <<name>>]

RaceFrame ==
    /\ UNCHANGED <<url_record, app_url_record, pinecone, app_chroma, message>>
    /\ UNCHANGED kb
    /\ UNCHANGED <<nsVars, chVars, chatVars, appVars>>

\* A handler is called: file_upload_handler on a file, or delete_file_record
\* on a name.
CallHandler(h) ==
    /\ race[h].pc = "none"
    /\ \E o \in {"file_upload_handler", "delete_file_record"}, name \in RaceNames :
          race' = [race EXCEPT ![h] =
                      [pc |-> IF o = "file_upload_handler" THEN "check" ELSE "read",
                       op |-> o, name |-> name, files |-> <<>>, said |-> ""]]
    /\ UNCHANGED <<file_record, chroma>>
    /\ RaceFrame

\* file_upload_handler: if check_duplicate_file(file_name): return ...
CheckDuplicateFile(h) ==
    /\ race[h].pc = "check"
    /\ race' = IF check_duplicate(file_record, race[h].name)
               THEN [race EXCEPT ![h].pc = "done", ![h].said = "is already uploaded"]
               ELSE [race EXCEPT ![h].pc = "embed"]
    /\ UNCHANGED <<file_record, chroma>>
    /\ RaceFrame

\* file_upload_handler: load_documents_from_file, chunk_and_embed_docs
ChunkAndEmbedDocs(h) ==
    /\ race[h].pc = "embed"
    /\ chroma' = Append(chroma, StoredChunk("file", race[h].name))
    /\ race' = [race EXCEPT ![h].pc = "save"]
    /\ UNCHANGED file_record
    /\ RaceFrame

\* file_upload_handler: save_uploaded_file_record(file_name), return
SaveUploadedFileRecord(h) ==
    /\ race[h].pc = "save"
    /\ file_record' = save_uploaded_record(file_record, race[h].name)
    /\ race' = [race EXCEPT ![h].pc = "done",
                             ![h].said = "processed and embedded successfully"]
    /\ UNCHANGED chroma
    /\ RaceFrame

\* delete_file_record: files = get_uploaded_files(); if not files: return
ReadFileRecord(h) ==
    /\ race[h].pc = "read"
    /\ race' = IF get_uploaded(file_record) = <<>>
               THEN [race EXCEPT ![h].pc = "done"]
               ELSE [race EXCEPT ![h].pc = "write",
                                 ![h].files = get_uploaded(file_record)]
    /\ UNCHANGED <<file_record, chroma>>
    /\ RaceFrame

\* delete_file_record: open(upload_file_dir, "w") and the names kept
WriteFileRecord(h) ==
    /\ race[h].pc = "write"
    /\ file_record' = [exists |-> TRUE, lines |-> Keep(race[h].files, race[h].name)]
    /\ race' = [race EXCEPT ![h].pc = "done"]
    /\ UNCHANGED chroma
    /\ RaceFrame

\* Nothing was uploaded yet, or one file was, by an earlier call.
InitRace ==
    /\ ServiceIdle(Callers)
    /\ NoChat(<<>>) /\ NewSession(1) /\ Others(NoAgent, NoHandlers)
    /\ ToolAndBatch(<<DefaultChunkSize, DefaultChunkOverlap>>, <<>>)
    /\ url_record = NoFile /\ app_url_record = NoFile
    /\ pinecone = <<>> /\ app_chroma = <<>>
    /\ message = [handler |-> "none"]
    /\ \E earlier_uploads \in {<<>>} \cup {<<name>> : name \in RaceNames} :
          /\ file_record = IF earlier_uploads = <<>> THEN NoFile
                           ELSE OneFile(earlier_uploads[1])
          /\ chroma = [i \in 1..Len(earlier_uploads) |->
                          StoredChunk("file", earlier_uploads[i])]

NextRace ==
    \E h \in Handlers :
        \/ CallHandler(h)
        \/ CheckDuplicateFile(h) \/ ChunkAndEmbedDocs(h) \/ SaveUploadedFileRecord(h)
        \/ ReadFileRecord(h) \/ WriteFileRecord(h)

SpecRace == InitRace /\ [][NextRace]_vars

Ingested(h) ==
    /\ race[h].pc = "done"
    /\ race[h].op = "file_upload_handler"
    /\ race[h].said = "processed and embedded successfully"

LinesOf(name) == {i \in 1..Len(file_record.lines) : file_record.lines[i] = name}

\* C25: of two file_upload_handler calls for the same file name that ran at
\* the same time at most one ingested the file, so the record file has one
\* line for the name and the store one set of its chunks; and a name that
\* a call recorded while delete_file_record removed another name is still
\* in the record file when both are over.
C25_CheckThenRecord ==
    (race["h1"].pc = "done" /\ race["h2"].pc = "done") =>
        /\ (/\ race["h1"].op = "file_upload_handler"
            /\ race["h2"].op = "file_upload_handler"
            /\ race["h1"].name = race["h2"].name) =>
              /\ ~(Ingested("h1") /\ Ingested("h2"))
              /\ Cardinality(LinesOf(race["h1"].name)) <= 1
              /\ Cardinality(ChunksOf(chroma, "file", race["h1"].name)) <= 1
        /\ \A h \in Handlers, g \in Handlers :
              (/\ Ingested(h)
               /\ race[g].op = "delete_file_record"
               /\ race[g].name # race[h].name) =>
                 LinesOf(race[h].name) # {}

\* ---------------------------------------------------------------------
\* The pgvector app's session: script runs, New Resource, questions and
\* Clear Chat History.
\* ---------------------------------------------------------------------

InitApp ==
    /\ ServiceIdle(Callers)
    /\ NoChat(<<>>) /\ NoUploads(NoFile, <<>>) /\ NewSession(1) /\ Others(NoAgent, NoHandlers)
    /\ ToolAndBatch(<<DefaultChunkSize, DefaultChunkOverlap>>, <<>>)

NextApp == Rerun \/ CreateNewResource \/ RenderChatTab \/ ClearChat

SpecApp == InitApp /\ [][NextApp]_vars

\* C26: whenever the session has a chain, the chain's resource is the
\* current resource, so a question is answered from the collection that
\* uploads go into; and a new resource leaves the chat history empty.
C26_SessionBinding ==
    /\ ~rag_chain.isNone => rag_chain.resource_id = current_resource_id
    /\ chat.handler = "render_chat_tab" => chat.resource_id = current_resource_id
    /\ chat.handler = "_create_new_resource" => chat_history = <<>>

====
